---- MODULE Spec2Model ----
(***************************************************************************)
(* Model of the tool process supervisor of the Amadeus / ponzgen           *)
(* repository.  Two operating-system processes are modelled:               *)
(*                                                                         *)
(*   program = "mcp_auto_manager"                                          *)
(*       microservice/mcp_2/mcp_auto_manager.py, class MCPAutoManager:     *)
(*       the timer-driven control loop with its unjoined start threads.    *)
(*   program = "app"                                                       *)
(*       the FastAPI process: refresh_tools / get_free_port /              *)
(*       MCPProxyManager.update_tools and the status checker               *)
(*       check_tools_status with its caches.                               *)
(*                                                                         *)
(* app.py:414 starts mcp_auto_manager.py with subprocess.Popen, so the two *)
(* programs share no memory; a behaviour follows one of them.              *)
(***************************************************************************)
EXTENDS Integers, Sequences, FiniteSets, TLC

VARIABLES
    program,                  \* which operating-system process the behaviour follows
    \* ---- MCPAutoManager (mcp_auto_manager.py) ----
    pc,                       \* position of the main thread of MCPAutoManager
    current_tools_signatures, \* self.current_tools_signatures: name -> signature
    running_processes,        \* self.running_processes: name -> entry
    orphans,                  \* live processes of the manager no handle refers to any more
    threads,                  \* start threads launched and not yet finished
    changes,                  \* the dict _detect_tool_changes returned to the current tick
    stops,                    \* names _handle_tool_changes still has to stop, with their class
    stopping,                 \* the name _stop_single_tool is waiting for ("" when none)
    waited,                   \* the process it waits for, once the table no longer holds it
    fetched,                  \* tools_data of the latest _get_mcp_tools call
    fetch_ok,                 \* whether that call reached the store
    fetchedOnce,              \* some earlier _get_mcp_tools call reached the store
    sameFetch,                \* the latest tick fetched the list the call before it fetched
    \* ---- what _check_tool_health looks at and returns ----
    logs,                     \* name -> state of the log file logs_dir/<name>.log
    listening,                \* the ports of localhost that accept a TCP connection
    health,                   \* what the latest _check_tool_health call did
    \* ---- MCPProxyManager (_mcp_manager.py), in the app ----
    _processes,               \* self._processes: port -> the process started for it
    _commands,                \* self._commands: port -> full command
    ops,                      \* stops and spawns of the latest update_tools call, in order
    \* ---- the environment of the app ----
    store,                    \* the rows of the table `tools`, in the order a select returns
    busy,                     \* the ports of the host on which bind() fails
    now,                      \* time.time()
    advances,                 \* how often the clock of the model has advanced
    \* ---- refresh_tools (routes/mcp_tools.py) and get_free_port (routes/tools.py) ----
    rpc,                      \* position of refresh_tools
    refresh_tools_cache,      \* _tools_cache of routes/mcp_tools.py
    refresh_last_cache_time,  \* _last_cache_time of routes/mcp_tools.py
    _used_ports_cache,        \* _used_ports_cache of routes/tools.py
    _last_used_ports_check,   \* _last_used_ports_check of routes/tools.py
    _port_config,             \* _port_config of routes/tools.py: the configured range
    free_port,                \* what the latest get_free_port call of SpecPort returned
    declared,                 \* the active tools as the current refresh found them
    dupQueue,                 \* duplicate-port entries the first pass still has to reassign
    missQueue,                \* empty-port entries the second pass still has to fill
    tools_to_update,          \* tool_ids whose versions are to be written back
    writebacks,               \* the write-backs the current refresh has issued
    \* ---- check_tools_status (utils/_check_tools_status.py) ----
    _tools_cache,             \* _tools_cache of _check_tools_status.py
    _last_cache_time,         \* _last_cache_time of _check_tools_status.py
    _tool_restart_attempts,   \* tool_id -> time of the last restart attempt
    checkers,                 \* the threads check_after_adding has started
    restarts                  \* tool_id -> the times at which a restart was scheduled

autoVars == <<pc, current_tools_signatures, running_processes, orphans, threads,
              changes, stops, stopping, waited, fetched, fetch_ok, fetchedOnce,
              sameFetch>>

healthVars == <<logs, listening, health>>

managerVars == <<_processes, _commands, ops>>

envVars == <<store, busy, now, advances>>

refreshVars == <<rpc, refresh_tools_cache, refresh_last_cache_time, _used_ports_cache,
                 _last_used_ports_check, declared, dupQueue, missQueue, tools_to_update,
                 writebacks>>

statusVars == <<_tools_cache, _last_cache_time, _tool_restart_attempts, checkers,
                restarts>>

portVars == <<_port_config, free_port>>

\* the variables of the app
appVars == <<managerVars, envVars, refreshVars, statusVars, portVars>>

\* the variables MCPAutoManager's reconciliation never touches
nonAutoVars == <<healthVars, appVars>>

vars == <<program, autoVars, healthVars, appVars>>

(***************************************************************************)
(* Bounds of the model.                                                    *)
(***************************************************************************)
\* processes spawned by the manager that are alive at one time
MaxProcs == 2

\* number of versions of a tool in the store
MaxVersions == 2

\* number of ports of the configured range start_port..end_port
RangeSize == 2

\* number of times the clock advances in a behaviour
MaxAdvances == 2

\* _restart_cooldown = 15 * 60 of _check_tools_status.py, in seconds
_restart_cooldown == 900

\* _cache_ttl of _check_tools_status.py
_cache_ttl == 60

\* _cache_ttl of routes/mcp_tools.py
refresh_cache_ttl == 60

\* _used_ports_cache_ttl of routes/tools.py
_used_ports_cache_ttl == 30

\* more candidates than this are sampled by get_free_port
SampleSize == 100

\* by how many ports the widest range of SpecPort exceeds the ports probed
MaxSpare == 2

\* MCP_START_PORT as configured
start_port == 10001

end_port == start_port + RangeSize - 1

\* config["port_range"]
port_range == start_port..end_port

\* time.time() when the app starts: long after the epoch
StartTime == _restart_cooldown

\* how far the clock moves between two requests to the app, in seconds: after one
\* step the used-ports cache has expired, after two the tool list cache too
RefreshTimeSteps == {_used_ports_cache_ttl + 1}

\* status-check threads followed at one time
MaxCheckers == 2

\* how far the clock moves between two status checks, in seconds: a
\* moment, what is left of the lifetime of the cache, one second less than the cooldown
StatusTimeSteps == {2, _cache_ttl - 2, _restart_cooldown - 1}

\* a tick begins only while at most this many start threads are still unfinished
MaxPending == 1

\* tool names, in the order the store returns the rows
Names == <<"A", "B">>

NameSet == {Names[i] : i \in 1..Len(Names)}

\* values of released.port in the rows MCPAutoManager fetches, per tool name
AutoPorts(n) == IF n = "A" THEN {"10001", "10002"} ELSE {"10001"}

\* values of released.args, as token lists
AutoArgs == {<<"uvx", "mcp-server-fetch">>}

\* values of released.env, as lists of <<key, value>>
AutoEnvs == {<<>>}

(***************************************************************************)
(* Rows of the configuration store.  A row has a name, an on_status and a  *)
(* list of versions; a version has a `released` dict, which may be missing *)
(* or empty (falsy).                                                       *)
(***************************************************************************)
NoReleased == [falsy |-> TRUE, port |-> "", args |-> <<>>, env |-> <<>>]

Released(port, args, env) == [falsy |-> FALSE, port |-> port, args |-> args, env |-> env]

\* a released dict whose "env" is null instead of a dict
NullEnvReleased(port, args) ==
    [falsy |-> FALSE, port |-> port, args |-> args, env |-> <<>>, env_is_none |-> TRUE]

EnvIsNone(released) == "env_is_none" \in DOMAIN released

Version(released) == [released |-> released]

ToolRow(name, on_status, versions) ==
    [name |-> name, on_status |-> on_status, versions |-> versions]

\* the last element of a non-empty list: Python's xs[-1]
Last(xs) == xs[Len(xs)]

RECURSIVE FlattenSeq(_)
FlattenSeq(xss) ==
    IF xss = <<>> THEN <<>> ELSE Head(xss) \o FlattenSeq(Tail(xss))

Range(xs) == {xs[i] : i \in 1..Len(xs)}

\* the sub-list of Names whose elements lie in S, in store order
NamesIn(S) == SelectSeq(Names, LAMBDA n : n \in S)

(***************************************************************************)
(* MCPAutoManager._parse_mcp_tools and _get_tool_signature                 *)
(***************************************************************************)
\* " ".join([f"-e {key} {value}" ...]) as tokens
EnvFlags(env) == FlattenSeq([i \in 1..Len(env) |-> <<"-e", env[i][1], env[i][2]>>])

\* f"mcp-proxy --sse-port={port} {env_flags} -- {args}".strip(), as the token list
\* command.split() hands to Popen
AutoCommand(port, env, args) ==
    <<"mcp-proxy", "--sse-port=" \o port>> \o EnvFlags(env) \o <<"--">> \o args

RECURSIVE _parse_mcp_tools(_)
_parse_mcp_tools(tools_data) ==
    IF tools_data = <<>> THEN <<>>
    ELSE LET tool == Head(tools_data)
             rest == _parse_mcp_tools(Tail(tools_data))
         IN  IF tool.versions = <<>> THEN rest
             ELSE LET released == Last(tool.versions).released
                  IN  IF released.falsy THEN rest
                      ELSE <<[name    |-> tool.name,
                              command |-> AutoCommand(released.port, released.env,
                                                      released.args),
                              port    |-> released.port]>> \o rest

\* whether _parse_mcp_tools raises: env_vars.items() (line 111) on a released
\* dict whose env is None, for a tool the loop does not skip
ParseRaises(tools_data) ==
    \E i \in 1..Len(tools_data) :
        /\ tools_data[i].versions # <<>>
        /\ ~Last(tools_data[i].versions).released.falsy
        /\ EnvIsNone(Last(tools_data[i].versions).released)

\* a digest that leaves the name out
_get_tool_signature_noname(tool) == <<"md5", tool.command, tool.port>>

\* md5 of the JSON text of {name, command, port}: the text decides the digest
_get_tool_signature(tool) == <<"md5", tool.name, tool.command, tool.port>>

(***************************************************************************)
(* MCPAutoManager._get_mcp_tools: the rows whose on_status is neither      *)
(* Offline nor Predefined; an exception of the store gives [].             *)
(***************************************************************************)
ActiveRows(rows) ==
    SelectSeq(rows, LAMBDA t : t.on_status \notin {"Offline", "Predefined"})

_get_mcp_tools(rows, reached) == IF reached THEN ActiveRows(rows) ELSE <<>>

(***************************************************************************)
(* MCPAutoManager._detect_tool_changes                                     *)
(***************************************************************************)
RECURSIVE DistinctNames(_)
\* keys of new_signatures in insertion order
DistinctNames(parsed) ==
    IF parsed = <<>> THEN <<>>
    ELSE LET rest == DistinctNames(SelectSeq(Tail(parsed),
                                             LAMBDA t : t.name # Head(parsed).name))
         IN  <<Head(parsed).name>> \o rest

\* new_signatures: a later tool of the same name overwrites an earlier one
NewSignatures(parsed) ==
    [n \in {parsed[i].name : i \in 1..Len(parsed)} |->
        _get_tool_signature(Last(SelectSeq(parsed, LAMBDA t : t.name = n)))]

\* next(t for t in parsed_tools if t['name'] == tool_name)
ToolData(parsed, n) == Head(SelectSeq(parsed, LAMBDA t : t.name = n))

\* a classification with no test of the signature
ClassifyTool_nosig(cur, new, n) == IF n \notin DOMAIN cur THEN "added" ELSE "modified"

ClassifyTool(cur, new, n) ==
    IF n \notin DOMAIN cur THEN "added"
    ELSE IF cur[n] # new[n] THEN "modified"
    ELSE "unchanged"

ToolsOfClass(cur, parsed, class) ==
    LET new   == NewSignatures(parsed)
        names == SelectSeq(DistinctNames(parsed),
                           LAMBDA n : ClassifyTool(cur, new, n) = class)
    IN  [i \in 1..Len(names) |-> ToolData(parsed, names[i])]

\* the loop over current_tools_signatures left out
_detect_tool_changes_noremoved(cur, parsed) ==
    [added     |-> ToolsOfClass(cur, parsed, "added"),
     removed   |-> <<>>,
     modified  |-> ToolsOfClass(cur, parsed, "modified"),
     unchanged |-> ToolsOfClass(cur, parsed, "unchanged")]

_detect_tool_changes(cur, parsed) ==
    [added     |-> ToolsOfClass(cur, parsed, "added"),
     removed   |-> NamesIn(DOMAIN cur \ DOMAIN NewSignatures(parsed)),
     modified  |-> ToolsOfClass(cur, parsed, "modified"),
     unchanged |-> ToolsOfClass(cur, parsed, "unchanged")]

NoChanges == [added |-> <<>>, removed |-> <<>>, modified |-> <<>>, unchanged |-> <<>>]

\* total_changes of _handle_tool_changes
TotalChanges(ch) == Len(ch.added) + Len(ch.removed) + Len(ch.modified)

(***************************************************************************)
(* The contents of the store a fetch of MCPAutoManager may find: the users *)
(* of the store edit it at any time.                                       *)
(***************************************************************************)
AutoStatuses == {"Online"}

AutoRows(n) ==
    {ToolRow(n, st, <<Version(Released(p, a, e))>>) :
        st \in AutoStatuses, p \in AutoPorts(n), a \in AutoArgs, e \in AutoEnvs}

\* one optional row per name, in store order
AutoStores ==
    {FlattenSeq([i \in 1..Len(Names) |-> f[i]]) :
        f \in {g \in [1..Len(Names) -> {<<>>} \cup UNION {{<<r>> : r \in AutoRows(Names[i])}
                                                          : i \in 1..Len(Names)}] :
                  \A i \in 1..Len(Names) : g[i] = <<>> \/ g[i][1].name = Names[i]}}

(***************************************************************************)
(* MCPAutoManager: state after __init__                                    *)
(***************************************************************************)
EmptyMap == <<>>

NoWait == [held |-> FALSE, command |-> <<>>, state |-> "exited"]

\* nothing has been checked yet
NoReport == [checked |-> FALSE]

HealthUnused ==
    /\ logs = [n \in NameSet |-> "missing"]
    /\ listening = {}
    /\ health = NoReport

\* MCPProxyManager.__init__
ManagerInit ==
    /\ _processes = EmptyMap
    /\ _commands = EmptyMap
    /\ ops = <<>>

\* a cache variable holding None, and one holding v
NoneValue == [is_none |-> TRUE]

Some(v) == [is_none |-> FALSE, value |-> v]

\* no get_free_port call has returned yet
NoReturn == [path |-> "no call", port |-> ""]

\* the module globals of routes/mcp_tools.py and routes/tools.py after import, and
\* the port configuration _load_port_config reads at the first call
RefreshGlobals ==
    /\ rpc = "idle"
    /\ refresh_tools_cache = NoneValue
    /\ refresh_last_cache_time = 0
    /\ _used_ports_cache = NoneValue
    /\ _last_used_ports_check = 0
    /\ free_port = NoReturn
    /\ declared = <<>>
    /\ dupQueue = <<>>
    /\ missQueue = <<>>
    /\ tools_to_update = <<>>
    /\ writebacks = <<>>

RefreshInit ==
    /\ RefreshGlobals
    /\ _port_config = [start_port |-> start_port, end_port |-> end_port]

\* no thread in this slot
NoChecker == [pc |-> "none"]

\* the module globals of _check_tools_status.py after import
StatusInit ==
    /\ _tools_cache = NoneValue
    /\ _last_cache_time = 0
    /\ _tool_restart_attempts = EmptyMap
    /\ checkers = [t \in 1..MaxCheckers |-> NoChecker]
    /\ restarts = EmptyMap

EnvUnused ==
    /\ store = <<>>
    /\ busy = {}
    /\ now = StartTime
    /\ advances = 0

\* the app's variables in a behaviour of the other program
AppUnused == ManagerInit /\ RefreshInit /\ EnvUnused /\ StatusInit

InitAuto ==
    /\ program = "mcp_auto_manager"
    /\ HealthUnused
    /\ AppUnused
    /\ pc = "boot"
    /\ current_tools_signatures = EmptyMap
    /\ running_processes = EmptyMap
    /\ orphans = EmptyMap
    /\ threads = EmptyMap
    /\ changes = NoChanges
    /\ stops = <<>>
    /\ stopping = ""
    /\ waited = NoWait
    /\ fetched = <<>>
    /\ fetch_ok = FALSE
    /\ fetchedOnce = FALSE
    /\ sameFetch = FALSE

\* dict assignment d[k] = v
Put(d, k, v) == [x \in DOMAIN d \cup {k} |-> IF x = k THEN v ELSE d[x]]

\* del d[k]
Del(d, k) == [x \in DOMAIN d \ {k} |-> d[x]]

(***************************************************************************)
(* Multisets (of unfinished threads, of unreferenced processes):           *)
(* element -> number of copies.                                            *)
(***************************************************************************)
AddCopy(ms, x) == IF x \in DOMAIN ms THEN [ms EXCEPT ![x] = @ + 1] ELSE Put(ms, x, 1)

RemoveCopy(ms, x) == IF ms[x] > 1 THEN [ms EXCEPT ![x] = @ - 1] ELSE Del(ms, x)

RECURSIVE SumOf(_, _)
SumOf(f, S) ==
    IF S = {} THEN 0 ELSE LET x == CHOOSE y \in S : TRUE IN f[x] + SumOf(f, S \ {x})

Copies(ms) == SumOf(ms, DOMAIN ms)

\* a thread running _start_tool_thread(tool); cur: launched by the current tick;
\* at stage "spawned" it holds the Popen object of a live process
StartThread(tool, cur) ==
    [name |-> tool.name, command |-> tool.command, port |-> tool.port,
     cur |-> cur, stage |-> "start"]

RECURSIVE AddThreads(_, _, _)
\* thread.start() for every tool of the list
AddThreads(ts, tools, cur) ==
    IF tools = <<>> THEN ts
    ELSE AddThreads(AddCopy(ts, StartThread(Head(tools), cur)), Tail(tools), cur)

RECURSIVE AgeThreads(_, _)
\* the threads of earlier ticks are no longer threads of the current tick
AgeThreads(ts, S) ==
    IF S = {} THEN EmptyMap
    ELSE LET t    == CHOOSE y \in S : TRUE
             rest == AgeThreads(ts, S \ {t})
             old  == [t EXCEPT !.cur = FALSE]
         IN  IF old \in DOMAIN rest THEN [rest EXCEPT ![old] = @ + ts[t]]
             ELSE Put(rest, old, ts[t])

(***************************************************************************)
(* Processes.  The process behind a Popen handle is described where the    *)
(* handle is held: in the entry of running_processes, in the start thread  *)
(* that spawned it, or in the waiting _stop_single_tool.  A live process   *)
(* whose last handle is dropped goes to `orphans`.                         *)
(***************************************************************************)
Orphan(name, command, state) == [name |-> name, command |-> command, state |-> state]

\* the handle of a process is dropped
Drop(os, name, command, state) ==
    IF state = "exited" THEN os ELSE AddCopy(os, Orphan(name, command, state))

Entry(command, port, state) == [command |-> command, port |-> port, process |-> state]

\* the processes of tool `name` that are alive, as a number
LiveOf(name, rp, ts, w, st, os) ==
    (IF name \in DOMAIN rp /\ rp[name].process # "exited" THEN 1 ELSE 0)
    + SumOf(ts, {t \in DOMAIN ts : t.name = name /\ t.stage = "spawned"})
    + (IF st = name /\ w.held /\ w.state # "exited" THEN 1 ELSE 0)
    + SumOf(os, {o \in DOMAIN os : o.name = name})

LiveCount ==
    SumOf([n \in NameSet |-> LiveOf(n, running_processes, threads, waited, stopping,
                                    orphans)], NameSet)

(***************************************************************************)
(* MCPAutoManager.start_auto_management up to the scheduling loop:         *)
(* fetch, parse, initialise the signatures, _start_all_tools.              *)
(***************************************************************************)
\* An exception of _parse_mcp_tools is not caught here: it leaves
\* start_auto_management, main() prints it and the program ends.
StartFrom(stores) ==
    /\ program = "mcp_auto_manager"
    /\ pc = "boot"
    /\ \E rows \in stores, reached \in BOOLEAN :
         LET tools_data   == _get_mcp_tools(rows, reached)
             parsed_tools == _parse_mcp_tools(tools_data)
         IN  IF ParseRaises(tools_data)
             THEN /\ pc' = "exited"
                  /\ UNCHANGED <<current_tools_signatures, threads, fetched, fetch_ok,
                                 fetchedOnce>>
             ELSE /\ current_tools_signatures' = NewSignatures(parsed_tools)
                  /\ threads' = AddThreads(threads, parsed_tools, FALSE)
                  /\ fetched' = tools_data
                  /\ fetch_ok' = reached
                  /\ fetchedOnce' = reached
                  /\ pc' = "idle"
    /\ UNCHANGED <<program, nonAutoVars, running_processes, orphans, changes, stops, stopping,
                   waited, sameFetch>>

StartAutoManagement == StartFrom(AutoStores)

(***************************************************************************)
(* _scheduled_check, first half: _detect_tool_changes and the test         *)
(* total_changes == 0 of _handle_tool_changes.                             *)
(***************************************************************************)
StopList(ch) ==
    [i \in 1..Len(ch.removed) |-> [name |-> ch.removed[i], class |-> "removed"]]
    \o [i \in 1..Len(ch.modified) |-> [name |-> ch.modified[i].name, class |-> "modified"]]

\* where the tick goes after _detect_tool_changes
AfterDetect(ch) == IF TotalChanges(ch) = 0 THEN "health" ELSE "handle"

\* An exception of _parse_mcp_tools ends the tick in the except clause of
\* _scheduled_check, before anything the manager keeps has changed.
DetectFrom(stores) ==
    /\ program = "mcp_auto_manager"
    /\ pc = "idle"
    /\ Copies(threads) <= MaxPending
    /\ \E rows \in stores, reached \in BOOLEAN :
         LET tools_data   == _get_mcp_tools(rows, reached)
             parsed_tools == _parse_mcp_tools(tools_data)
             ch           == _detect_tool_changes(current_tools_signatures, parsed_tools)
         IN  IF ParseRaises(tools_data)
             THEN UNCHANGED <<current_tools_signatures, changes, stops, pc, fetched,
                              fetch_ok, fetchedOnce, sameFetch>>
             ELSE /\ current_tools_signatures' = NewSignatures(parsed_tools)
                  /\ changes' = ch
                  /\ stops' = IF AfterDetect(ch) = "handle" THEN StopList(ch) ELSE <<>>
                  /\ pc' = AfterDetect(ch)
                  /\ fetched' = tools_data
                  /\ fetch_ok' = reached
                  /\ fetchedOnce' = (fetchedOnce \/ reached)
                  /\ sameFetch' = (tools_data = fetched)
    /\ UNCHANGED <<program, nonAutoVars, running_processes, orphans, threads, stopping, waited>>

ScheduledDetect == DetectFrom(AutoStores)

(***************************************************************************)
(* _stop_single_tool, called by _handle_tool_changes for the removed and   *)
(* then the modified tools.  StopBegin is the call up to process.wait,     *)
(* StopEnd the return of the wait and the `finally: del`.                  *)
(***************************************************************************)
\* process.terminate()
Terminate(state) == IF state = "alive" THEN "terminating" ELSE state

StopBegin ==
    /\ program = "mcp_auto_manager"
    /\ pc = "handle"
    /\ stops # <<>>
    /\ stopping = ""
    /\ LET tool_name == Head(stops).name
       IN  IF tool_name \in DOMAIN running_processes
           THEN /\ running_processes' =
                       [running_processes EXCEPT ![tool_name].process = Terminate(@)]
                /\ stopping' = tool_name
                /\ stops' = stops
           ELSE /\ running_processes' = running_processes
                /\ stopping' = ""
                /\ stops' = Tail(stops)
    /\ UNCHANGED <<program, nonAutoVars, pc, current_tools_signatures, orphans, threads, changes,
                   waited, fetched, fetch_ok, fetchedOnce, sameFetch>>

\* the process _stop_single_tool waits for
WaitedProcess ==
    IF waited.held THEN waited
    ELSE [held |-> TRUE, command |-> running_processes[stopping].command,
          state |-> running_processes[stopping].process]

\* the entry is deleted only after a wait that returned
StopDeletes_onSuccess(rp, tool_name, exited) == IF exited THEN Del(rp, tool_name) ELSE rp

\* finally: del self.running_processes[tool_name]
StopDeletes(rp, tool_name, exited) == Del(rp, tool_name)

\* process.wait(timeout=5) returns, or raises TimeoutExpired while the process
\* still runs; the entry found under the name is deleted either way
StopEnd ==
    /\ program = "mcp_auto_manager"
    /\ pc = "handle"
    /\ stopping # ""
    /\ \E exited \in BOOLEAN :
         /\ ~exited => WaitedProcess.state # "exited"
         /\ running_processes' = StopDeletes(running_processes, stopping, exited)
         /\ LET after == IF exited THEN orphans
                         ELSE Drop(orphans, stopping, WaitedProcess.command,
                                   WaitedProcess.state)
            IN  orphans' = IF waited.held
                           THEN Drop(after, stopping,
                                     running_processes[stopping].command,
                                     running_processes[stopping].process)
                           ELSE after
    /\ stopping' = ""
    /\ waited' = NoWait
    /\ stops' = Tail(stops)
    /\ UNCHANGED <<program, nonAutoVars, pc, current_tools_signatures, threads, changes, fetched,
                   fetch_ok, fetchedOnce, sameFetch>>

(***************************************************************************)
(* _handle_tool_changes after the stops: the threads of the modified and   *)
(* of the added tools are started.  The summary _save_state writes is      *)
(* never read back (_load_state has no caller) and is not modelled.        *)
(***************************************************************************)
\* the tools whose start threads the tick launches, in launch order
LaunchList(ch) == ch.modified \o ch.added

\* whether _handle_tool_changes has reached its thread.start() loop
MayLaunch == stops = <<>> /\ stopping = ""

LaunchThreads ==
    /\ program = "mcp_auto_manager"
    /\ pc = "handle"
    /\ MayLaunch
    /\ threads' = AddThreads(threads, LaunchList(changes), TRUE)
    /\ pc' = "health"
    /\ UNCHANGED <<program, nonAutoVars, current_tools_signatures, running_processes, orphans,
                   changes, stops, stopping, waited, fetched, fetch_ok, fetchedOnce,
                   sameFetch>>

\* _perform_health_check and _print_health_report change nothing the manager
\* keeps; the tick returns to the scheduling loop and its locals are gone
HealthCheck ==
    /\ program = "mcp_auto_manager"
    /\ pc = "health"
    /\ pc' = "idle"
    /\ changes' = NoChanges
    /\ stops' = <<>>
    /\ fetch_ok' = FALSE
    /\ sameFetch' = FALSE
    /\ threads' = AgeThreads(threads, DOMAIN threads)
    /\ UNCHANGED <<program, nonAutoVars, current_tools_signatures, running_processes, orphans,
                   stopping, waited, fetched, fetchedOnce>>

(***************************************************************************)
(* _start_tool_thread: _start_single_tool (Popen succeeds or the function  *)
(* returns None), then the entry is written to running_processes with no   *)
(* lock held.                                                              *)
(***************************************************************************)
ThreadSpawn(t) ==
    /\ program = "mcp_auto_manager"
    /\ t \in DOMAIN threads
    /\ t.stage = "start"
    /\ \E started \in BOOLEAN :
         IF started
         THEN /\ LiveCount < MaxProcs
              /\ threads' = AddCopy(RemoveCopy(threads, t), [t EXCEPT !.stage = "spawned"])
         ELSE threads' = RemoveCopy(threads, t)
    /\ UNCHANGED <<program, nonAutoVars, pc, current_tools_signatures, running_processes, orphans,
                   changes, stops, stopping, waited, fetched, fetch_ok, fetchedOnce,
                   sameFetch>>

\* self.running_processes[tool['name']] = {...}: an entry already there is
\* overwritten and the handle it held is lost, unless _stop_single_tool holds it
ThreadRecord(t) ==
    /\ program = "mcp_auto_manager"
    /\ t \in DOMAIN threads
    /\ t.stage = "spawned"
    /\ running_processes' = Put(running_processes, t.name,
                                Entry(t.command, t.port, "alive"))
    /\ threads' = RemoveCopy(threads, t)
    /\ IF t.name \notin DOMAIN running_processes
       THEN UNCHANGED <<orphans, waited>>
       ELSE IF stopping = t.name /\ ~waited.held
            THEN /\ waited' = [held |-> TRUE,
                               command |-> running_processes[t.name].command,
                               state |-> running_processes[t.name].process]
                 /\ orphans' = orphans
            ELSE /\ orphans' = Drop(orphans, t.name, running_processes[t.name].command,
                                    running_processes[t.name].process)
                 /\ waited' = waited
    /\ UNCHANGED <<program, nonAutoVars, pc, current_tools_signatures, changes, stops,
                   stopping, fetched, fetch_ok, fetchedOnce, sameFetch>>

NextAuto ==
    \/ StartAutoManagement
    \/ ScheduledDetect
    \/ StopBegin
    \/ StopEnd
    \/ LaunchThreads
    \/ HealthCheck
    \/ \E t \in DOMAIN threads : ThreadSpawn(t)
    \/ \E t \in DOMAIN threads : ThreadRecord(t)

SpecAuto == InitAuto /\ [][NextAuto]_vars

(***************************************************************************)
(* Properties of MCPAutoManager                                            *)
(***************************************************************************)
\* the tick in progress has launched a start thread
TickThreads == {t \in DOMAIN threads : t.cur}

\* C1: a tick that fetches the list the call before it fetched reports empty
\* added, removed and modified lists, goes straight to the health check, and so
\* neither stops a process nor launches a start thread.
C1_SameFetchNoAction ==
    sameFetch =>
        /\ changes.added = <<>> /\ changes.removed = <<>> /\ changes.modified = <<>>
        /\ pc = "health"
        /\ stops = <<>> /\ stopping = ""
        /\ TickThreads = {}

\* a second tick over an unchanged, non-empty list whose tools all run
C1_Witness ==
    /\ sameFetch
    /\ fetched # <<>>
    /\ Len(changes.unchanged) = Len(fetched)
    /\ \A i \in 1..Len(fetched) : fetched[i].name \in DOMAIN running_processes

\* C2 (as stated): once a tick is over, a tool that is not in the desired state
\* has no entry in running_processes.
C2_RemovedHasNoEntry ==
    pc = "idle" =>
        \A n \in NameSet :
            n \notin DOMAIN current_tools_signatures => n \notin DOMAIN running_processes

\* C9 (as stated): a tick whose fetch fails after an earlier fetch succeeded
\* classifies no tool as removed and leaves the signature map as it was.
C9_FailedFetchKeepsState ==
    [][(pc = "idle" /\ pc' # "idle" /\ fetchedOnce /\ ~fetch_ok') =>
          /\ changes'.removed = <<>>
          /\ current_tools_signatures' = current_tools_signatures]_vars

(***************************************************************************)
(* MCPAutoManager._check_tool_health, as a function of the table, the log  *)
(* file of the tool and the ports that accept connections.                 *)
(***************************************************************************)
\* int(s) of Python on the port texts of the model: the value, or no entry
\* where int raises ValueError
IntTable ==
    [s \in {"10001", "10002", "10003", "10004"} |->
        CASE s = "10001" -> 10001 [] s = "10002" -> 10002
          [] s = "10003" -> 10003 [] s = "10004" -> 10004]

IntRaises(s) == s \notin DOMAIN IntTable

\* _check_log_for_uvicorn: a missing or unreadable file gives False
_check_log_for_uvicorn(log_file) == log_file = "marker"

\* _check_port_active: connect_ex(('localhost', port)) == 0
_check_port_active(port, open) == port \in open

\* the dict _check_tool_health returns, or the ValueError of int(port)
_check_tool_health(tool_name, rp, files, open) ==
    LET port == IF tool_name \in DOMAIN rp THEN rp[tool_name].port ELSE ""
        log_healthy == _check_log_for_uvicorn(files[tool_name])
    IN  IF port # "" /\ IntRaises(port)
        THEN [checked |-> TRUE, raised |-> TRUE, name |-> tool_name]
        ELSE LET port_healthy == IF port # "" THEN _check_port_active(IntTable[port], open)
                                 ELSE FALSE
             IN  [checked |-> TRUE, raised |-> FALSE, name |-> tool_name,
                  log_healthy |-> log_healthy, port_healthy |-> port_healthy,
                  is_healthy |-> log_healthy /\ port_healthy]

\* released.port as update_tool stores it: any text (VersionReleased.port: str)
HealthPorts == {"", "10001", "10002", "abc"}

LogStates == {"missing", "unreadable", "no_marker", "marker"}

\* tables the start threads can have built from such rows
HealthTables ==
    UNION {[S -> {Entry(AutoCommand(p, <<>>, <<"uvx">>), p, "alive") : p \in HealthPorts}]
             : S \in SUBSET NameSet}

InitHealth ==
    /\ program = "mcp_auto_manager"
    /\ pc = "health"
    /\ current_tools_signatures = EmptyMap
    /\ running_processes \in HealthTables
    /\ orphans = EmptyMap
    /\ threads = EmptyMap
    /\ changes = NoChanges
    /\ stops = <<>>
    /\ stopping = ""
    /\ waited = NoWait
    /\ fetched = <<>>
    /\ fetch_ok = FALSE
    /\ fetchedOnce = FALSE
    /\ sameFetch = FALSE
    /\ logs \in [NameSet -> LogStates]
    /\ listening \in SUBSET {10001, 10002}
    /\ health = NoReport
    /\ AppUnused

CheckToolHealth ==
    /\ program = "mcp_auto_manager"
    /\ pc = "health"
    /\ \E tool_name \in NameSet :
         health' = _check_tool_health(tool_name, running_processes, logs, listening)
    /\ UNCHANGED <<program, autoVars, appVars, logs, listening>>

NextHealth == CheckToolHealth

SpecHealth == InitHealth /\ [][NextHealth]_vars

\* the log signal and the port signal of a tool, as the environment has them
LogSignal(n) == logs[n] = "marker"

PortSignal(n) ==
    /\ n \in DOMAIN running_processes
    /\ \E p \in listening : running_processes[n].port \in DOMAIN IntTable
                            /\ IntTable[running_processes[n].port] = p

\* C8 (as stated): every call of _check_tool_health reports both sub-signals and
\* a composite that is true exactly when both signals are.
C8_HealthIsConjunction ==
    health.checked =>
        /\ ~health.raised
        /\ health.log_healthy = LogSignal(health.name)
        /\ health.port_healthy = PortSignal(health.name)
        /\ health.is_healthy = (LogSignal(health.name) /\ PortSignal(health.name))

(***************************************************************************)
(* The app: tool_args_converter (_tool_args_converter.py)                  *)
(***************************************************************************)
\* str(n) of Python for the port numbers of the model
StrTable ==
    [n \in {10001, 10002, 10003, 10004} |->
        CASE n = 10001 -> "10001" [] n = 10002 -> "10002"
          [] n = 10003 -> "10003" [] n = 10004 -> "10004"]

\* a row of the table `tools` as the app reads it; the tool_id is the name
AppRow(name, company_id, on_status, versions) ==
    [name |-> name, company_id |-> company_id, on_status |-> on_status,
     versions |-> versions]

\* f"mcp-proxy --sse-port={port} {env_str}-- {args}": the text after
\* "--sse-port=", the -e flags and the arguments
FullCmd(port, env, args) == [sse_port |-> port, env |-> EnvFlags(env), args |-> args]

RECURSIVE tool_args_converter(_)
\* a tool is skipped when versions[-1]["released"] cannot be read or its port
\* is not empty and int() rejects it; an empty port is passed on
tool_args_converter(tools) ==
    IF tools = <<>> THEN <<>>
    ELSE LET tool == Head(tools)
             rest == tool_args_converter(Tail(tools))
         IN  IF tool.versions = <<>> \/ Last(tool.versions).released.falsy THEN rest
             ELSE LET tool_cfg == Last(tool.versions).released
                  IN  IF tool_cfg.port # "" /\ IntRaises(tool_cfg.port) THEN rest
                      ELSE LET port == IF tool_cfg.port = "" THEN ""
                                       ELSE StrTable[IntTable[tool_cfg.port]]
                           IN  <<[full_cmd |-> FullCmd(port, tool_cfg.env, tool_cfg.args)]>>
                               \o rest

(***************************************************************************)
(* MCPProxyManager (_mcp_manager.py)                                       *)
(***************************************************************************)
\* _extract_port raises ValueError: int() of the text after "--sse-port="
ExtractRaises(tools_data) ==
    \E i \in 1..Len(tools_data) : IntRaises(tools_data[i].full_cmd.sse_port)

_extract_port(cmd) == IntTable[cmd.sse_port]

RECURSIVE DistinctPorts(_)
\* keys of new_commands in insertion order
DistinctPorts(tools_data) ==
    IF tools_data = <<>> THEN <<>>
    ELSE LET port == _extract_port(Head(tools_data).full_cmd)
             rest == DistinctPorts(SelectSeq(Tail(tools_data),
                                   LAMBDA t : _extract_port(t.full_cmd) # port))
         IN  <<port>> \o rest

\* new_commands[port]: the command of the last tool that names the port
NewCommand(tools_data, port) ==
    Last(SelectSeq(tools_data, LAMBDA t : _extract_port(t.full_cmd) = port)).full_cmd

RECURSIVE SortedSeq(_)
\* the order in which CPython iterates a set of small integers of one
\* thousand: ascending
SortedSeq(S) ==
    IF S = {} THEN <<>>
    ELSE LET x == CHOOSE y \in S : \A z \in S : y <= z
         IN  <<x>> \o SortedSeq(S \ {x})

Op(op, class, port) == [op |-> op, class |-> class, port |-> port]

\* stop_process(port): terminate without waiting, forget process and command
stop_process(m, port, class) ==
    IF port \in DOMAIN m.processes
    THEN [processes |-> Del(m.processes, port),
          commands  |-> IF port \in DOMAIN m.commands THEN Del(m.commands, port)
                        ELSE m.commands,
          ops       |-> Append(m.ops, Op("stop", class, port))]
    ELSE m

\* the two assignments made although Popen raised
Spawn_recorded(m, port, cmd, class, raises) ==
    [processes |-> Put(m.processes, port, [cmd |-> cmd]),
     commands  |-> Put(m.commands, port, cmd),
     ops       |-> Append(m.ops, Op(IF raises THEN "spawn_failed" ELSE "spawn", class, port))]

\* subprocess.Popen(cmd, shell=True) and the two assignments, or the except branch
Spawn(m, port, cmd, class, raises) ==
    IF raises THEN [m EXCEPT !.ops = Append(@, Op("spawn_failed", class, port))]
    ELSE [processes |-> Put(m.processes, port, [cmd |-> cmd]),
          commands  |-> Put(m.commands, port, cmd),
          ops       |-> Append(m.ops, Op("spawn", class, port))]

RECURSIVE StopRemoved(_, _)
\* for port in ports_to_remove: self.stop_process(port)
StopRemoved(m, ports) ==
    IF ports = <<>> THEN m
    ELSE StopRemoved(stop_process(m, Head(ports), "removed"), Tail(ports))

RECURSIVE AddOrUpdate(_, _, _, _)
\* for port, cmd in new_commands.items(): add, restart or leave alone
AddOrUpdate(m, ports, tools_data, failing) ==
    IF ports = <<>> THEN m
    ELSE LET port == Head(ports)
             cmd  == NewCommand(tools_data, port)
             next == IF port \notin DOMAIN m.commands
                     THEN Spawn(m, port, cmd, "added", port \in failing)
                     ELSE IF m.commands[port] # cmd
                          THEN Spawn(stop_process(m, port, "updated"), port, cmd,
                                     "updated", port \in failing)
                          ELSE m
         IN  AddOrUpdate(next, Tail(ports), tools_data, failing)

\* the removals of update_tools, then its additions and updates
RemovalsFirst(m, removed, ports, tools_data, failing) ==
    AddOrUpdate(StopRemoved(m, removed), ports, tools_data, failing)

\* the two loops in the other order
RemovalsLast(m, removed, ports, tools_data, failing) ==
    StopRemoved(AddOrUpdate(m, ports, tools_data, failing), removed)

UpdateOrder(m, removed, ports, tools_data, failing) ==
    RemovalsFirst(m, removed, ports, tools_data, failing)

\* MCPProxyManager.update_tools on the manager m; `failing` are the ports whose
\* Popen raises.  A ValueError of _extract_port leaves the manager as it was.
update_tools(m, tools_data, failing) ==
    IF ExtractRaises(tools_data) THEN [m EXCEPT !.ops = <<>>]
    ELSE LET ports   == DistinctPorts(tools_data)
             removed == SortedSeq(DOMAIN m.commands \ Range(ports))
         IN  UpdateOrder([m EXCEPT !.ops = <<>>], removed, ports, tools_data, failing)

Manager == [processes |-> _processes, commands |-> _commands, ops |-> ops]

(***************************************************************************)
(* update_tools applied to the command lists tool_args_converter makes of  *)
(* the active tools of a store.                                            *)
(***************************************************************************)
ProxyPorts(n) == IF n = "A" THEN {"10001", "10002"} ELSE {"10001", "10003", ""}

ProxyArgs(n) == IF n = "A" THEN {<<"uvx", "mcp-server-fetch">>, <<"uvx", "mcp-server-time">>}
                ELSE {<<"uvx", "mcp-server-fetch">>}

ProxyRows(n) ==
    {AppRow(n, "own", "Online", <<Version(Released(p, a, <<>>))>>) :
        p \in ProxyPorts(n), a \in ProxyArgs(n)}

\* one optional active tool per name, in store order
ProxyStores ==
    {FlattenSeq([i \in 1..Len(Names) |-> f[i]]) :
        f \in {g \in [1..Len(Names) -> {<<>>} \cup UNION {{<<r>> : r \in ProxyRows(Names[i])}
                                                          : i \in 1..Len(Names)}] :
                  \A i \in 1..Len(Names) : g[i] = <<>> \/ g[i][1].name = Names[i]}}

\* the variables of MCPAutoManager in a behaviour of the app
AutoUnused ==
    /\ pc = "boot"
    /\ current_tools_signatures = EmptyMap
    /\ running_processes = EmptyMap
    /\ orphans = EmptyMap
    /\ threads = EmptyMap
    /\ changes = NoChanges
    /\ stops = <<>>
    /\ stopping = ""
    /\ waited = NoWait
    /\ fetched = <<>>
    /\ fetch_ok = FALSE
    /\ fetchedOnce = FALSE
    /\ sameFetch = FALSE

InitProxy ==
    /\ program = "app"
    /\ ManagerInit
    /\ RefreshInit
    /\ StatusInit
    /\ EnvUnused
    /\ HealthUnused
    /\ AutoUnused

UpdateTools ==
    /\ program = "app"
    /\ \E active_tools \in ProxyStores, failing \in SUBSET {10001, 10003} :
         LET m == update_tools(Manager, tool_args_converter(active_tools), failing)
         IN  /\ _processes' = m.processes
             /\ _commands' = m.commands
             /\ ops' = m.ops
    /\ UNCHANGED <<program, autoVars, healthVars, portVars, envVars, refreshVars, statusVars>>

NextProxy == UpdateTools

SpecProxy == InitProxy /\ [][NextProxy]_vars

(***************************************************************************)
(* One reconciliation of either supervisor                                 *)
(***************************************************************************)
InitRecon == InitAuto \/ InitProxy

NextRecon == NextAuto \/ NextProxy

SpecRecon == InitRecon /\ [][NextRecon]_vars

\* _handle_tool_changes still has a removed tool to stop
RemovedStopPending == \E i \in 1..Len(stops) : stops[i].class = "removed"

\* C3: within one reconciliation every stop of a removed tool comes before the
\* first spawn for an added or modified tool.  In MCPAutoManager no start thread
\* of the tick exists while a removed tool is still to be stopped; in
\* update_tools no stop of a removed port follows a spawn attempt.
C3_RemovedStopsFirst ==
    /\ RemovedStopPending => TickThreads = {}
    /\ \A i, j \in 1..Len(ops) :
         (ops[i].op \in {"spawn", "spawn_failed"}
            /\ ops[j].op = "stop" /\ ops[j].class = "removed") => j < i

\* a tick that removed one tool and has spawned the process of another, or an
\* update_tools call that stopped a removed port and then spawned
C3_Witness ==
    \/ /\ program = "mcp_auto_manager"
       /\ changes.removed # <<>>
       /\ \E t \in TickThreads : t.stage = "spawned"
    \/ /\ program = "app"
       /\ \E i, j \in 1..Len(ops) :
            ops[j].op = "stop" /\ ops[j].class = "removed" /\ ops[i].op = "spawn" /\ j < i

(***************************************************************************)
(* check_after_adding (_check_tools_status.py): a daemon thread that runs  *)
(* check_tools_status.  At most MaxCheckers threads are followed.          *)
(***************************************************************************)
FreeCheckers(ch) == {t \in DOMAIN ch : ch[t].pc = "none"}

\* the thread as threading.Thread(...).start() leaves it
StartedChecker == [pc |-> "start"]

SpawnChecker(ch) ==
    IF FreeCheckers(ch) = {} THEN ch
    ELSE LET t == CHOOSE x \in FreeCheckers(ch) : \A y \in FreeCheckers(ch) : x <= y
         IN  [ch EXCEPT ![t] = StartedChecker]

(***************************************************************************)
(* get_free_port (routes/tools.py)                                         *)
(***************************************************************************)
\* get_free_port returns None
NoPort == ""

\* the (tool, version) pairs of a tool list whose released dict is there
Released_versions(rows) ==
    {<<i, v>> \in (1..Len(rows)) \X (1..MaxVersions + 1) :
        v <= Len(rows[i].versions) /\ ~rows[i].versions[v].released.falsy}

\* config["port_range"]: range(start_port, end_port + 1) and one port more
PortRangeOf_wide(config) == config.start_port..(config.end_port + 1)

\* config["port_range"] = range(start_port, end_port + 1)
PortRangeOf(config) == config.start_port..config.end_port

Digit == <<"0", "1", "2", "3", "4", "5", "6", "7", "8", "9">>

RECURSIVE Str(_)
\* str(n) of Python for a natural number
Str(n) == IF n < 10 THEN Digit[n + 1] ELSE Str(n \div 10) \o Digit[(n % 10) + 1]

\* the set the refresh of the used-ports cache builds from the rows of the store
UsedPortsOf(rows, range) ==
    {IntTable[rows[e[1]].versions[e[2]].released.port] :
        e \in {x \in Released_versions(rows) :
                 LET port == rows[x[1]].versions[x[2]].released.port
                 IN  port # "" /\ ~IntRaises(port) /\ IntTable[port] \in range}}

\* whether get_free_port fetches the used ports again
UsedPortsExpired(cache, last, t) == cache.is_none \/ (t - last) > _used_ports_cache_ttl

\* _used_ports_cache and _last_used_ports_check after the first part of
\* get_free_port; the cache is emptied before the fetch is tried
RefreshUsedPorts(range, cache, last, t, rows, reached) ==
    IF UsedPortsExpired(cache, last, t)
    THEN IF reached THEN [cache |-> Some(UsedPortsOf(rows, range)), last |-> t]
         ELSE [cache |-> Some({}), last |-> last]
    ELSE [cache |-> cache, last |-> last]

\* a return of get_free_port: the loop it returned from ("probe": the loop
\* over candidate_ports, "scan": the full scan, "none": the final return None)
\* and the value returned
Outcome(path, port) == [path |-> path, port |-> port]

\* the loop over a list probed in order: the first port on which bind() succeeds
FirstBindable(ports, taken) ==
    LET free == SelectSeq(ports, LAMBDA p : p \notin taken)
    IN  IF free = <<>> THEN {Outcome("none", NoPort)}
        ELSE {Outcome("probe", Str(Head(free)))}

\* candidate_ports[i] of the ascending list of a set of ports
NthPort(ports, i) == CHOOSE p \in ports : Cardinality({q \in ports : q < p}) = i

\* what get_free_port can return for a range, a set of used ports and the
\* ports on which bind() fails.  With more than SampleSize candidates 100 of
\* them are probed in random order, then the first, the middle and the last
\* one; if none of them is free and the range has more ports than the 103
\* probed, the ports not probed are scanned in ascending order.  With at most
\* SampleSize candidates the full scan has nothing left to try.
get_free_port(range, used, taken) ==
    LET candidates == range \ used
        n == Cardinality(candidates)
    IN  IF n <= SampleSize THEN FirstBindable(SortedSeq(candidates), taken)
        ELSE LET free   == {p \in candidates : p \notin taken}
                 extras == {NthPort(candidates, 0), NthPort(candidates, n \div 2),
                            NthPort(candidates, n - 1)}
                 blind  == n - Cardinality(free) >= SampleSize /\ extras \cap free = {}
                 scans  == SampleSize + 3 < Cardinality(range)
             IN  {Outcome("probe", Str(p)) : p \in free}
                 \cup (IF free # {} /\ blind /\ scans
                       THEN {Outcome("scan", Str(CHOOSE p \in free : \A q \in free : p <= q))}
                       ELSE {})
                 \cup (IF free = {} \/ (blind /\ ~scans)
                       THEN {Outcome("none", NoPort)} ELSE {})

\* the values get_free_port can return
FreePortReturns(range, used, taken) == {o.port : o \in get_free_port(range, used, taken)}

(***************************************************************************)
(* refresh_tools (routes/mcp_tools.py)                                     *)
(***************************************************************************)
\* whether refresh_tools uses its cached list
RefreshCacheFresh(force_refresh, cache, last, t) ==
    ~force_refresh /\ ~cache.is_none /\ (t - last) < refresh_cache_ttl

\* the positions of the active tools in the list
ActiveIndexes(rows) ==
    SelectSeq([i \in 1..Len(rows) |-> i],
              LAMBDA i : rows[i].on_status \notin {"Offline", "Predefined"})

\* the entries of one tool: one per version with a released dict whose port
\* is empty (missing) or is not (~missing)
VersionEntries(rows, i, missing) ==
    LET vs == SelectSeq([v \in 1..Len(rows[i].versions) |-> v],
                        LAMBDA v : ~rows[i].versions[v].released.falsy
                                   /\ (rows[i].versions[v].released.port = "") = missing)
    IN  [k \in 1..Len(vs) |-> [tool_id |-> rows[i].name, version_index |-> vs[k],
                               port |-> rows[i].versions[vs[k]].released.port]]

\* the entries of the active tools, in the order of the two nested loops
Entries(rows, missing) ==
    LET act == ActiveIndexes(rows)
    IN  FlattenSeq([k \in 1..Len(act) |-> VersionEntries(rows, act[k], missing)])

RECURSIVE Duplicates(_)
\* used_ports.items(): per port, in the order the ports were first seen, every
\* entry after the first
Duplicates(entries) ==
    IF entries = <<>> THEN <<>>
    ELSE LET port   == Head(entries).port
             same   == SelectSeq(Tail(entries), LAMBDA e : e.port = port)
             others == SelectSeq(Tail(entries), LAMBDA e : e.port # port)
         IN  same \o Duplicates(others)

DuplicateQueue(rows) == Duplicates(Entries(rows, FALSE))

MissingQueue(rows) == Entries(rows, TRUE)

\* tool['versions'][version_index]['released']['port'] = new_port, in place
SetPort(rows, tool_id, version_index, new_port) ==
    [i \in 1..Len(rows) |->
        IF rows[i].name = tool_id
        THEN [rows[i] EXCEPT !.versions[version_index].released.port = new_port]
        ELSE rows[i]]

\* supabase.table("tools").update({"versions": ...}).eq("tool_id", ...)
WriteVersions(rows, tool_id, versions) ==
    [i \in 1..Len(rows) |->
        IF rows[i].name = tool_id THEN [rows[i] EXCEPT !.versions = versions] ELSE rows[i]]

VersionsOf(rows, tool_id) ==
    Head(SelectSeq(rows, LAMBDA r : r.name = tool_id)).versions

\* where refresh_tools goes on once a pass has nothing left to do
PhaseAfter(dups, missing, updates) ==
    IF dups # <<>> THEN "dups"
    ELSE IF missing # <<>> THEN "missing"
    ELSE IF updates # <<>> THEN "write"
    ELSE "update"

\* the beginning of refresh_tools: the cached list or a fetch, the split in
\* active and offline tools, the dict of used ports.  When get_all_tools raises
\* the request ends with status 500 and nothing has changed.
RefreshFrom(forces, rows) ==
    \E force_refresh \in forces, reached \in BOOLEAN :
         LET cached == RefreshCacheFresh(force_refresh, refresh_tools_cache,
                                         refresh_last_cache_time, now)
             tools  == IF cached THEN refresh_tools_cache.value ELSE rows
         IN  IF ~cached /\ ~reached
             THEN UNCHANGED <<rpc, refresh_tools_cache, refresh_last_cache_time, declared,
                              dupQueue, missQueue, tools_to_update, writebacks>>
             ELSE /\ refresh_tools_cache' = Some(tools)
                  /\ refresh_last_cache_time' =
                        IF cached THEN refresh_last_cache_time ELSE now
                  /\ declared' = ActiveRows(tools)
                  /\ dupQueue' = DuplicateQueue(tools)
                  /\ missQueue' = MissingQueue(tools)
                  /\ tools_to_update' = <<>>
                  /\ writebacks' = <<>>
                  /\ rpc' = PhaseAfter(DuplicateQueue(tools), MissingQueue(tools), <<>>)

\* GET /refresh: force_refresh is the query parameter
RefreshBegin ==
    /\ program = "app"
    /\ rpc = "idle"
    /\ RefreshFrom(BOOLEAN, store)
    /\ UNCHANGED <<program, autoVars, healthVars, portVars, statusVars, managerVars, envVars, _used_ports_cache,
                   _last_used_ports_check>>

\* one round of the duplicate-port pass: get_free_port, the new port put into
\* the tool's version if there is one, the tool appended to tools_to_update
ReassignDuplicate ==
    /\ program = "app"
    /\ rpc = "dups"
    /\ \E reached \in BOOLEAN :
         LET e == Head(dupQueue)
             u == RefreshUsedPorts(PortRangeOf(_port_config), _used_ports_cache,
                                   _last_used_ports_check, now, store, reached)
         IN  /\ _used_ports_cache' = u.cache
             /\ _last_used_ports_check' = u.last
             /\ \E new_port \in FreePortReturns(PortRangeOf(_port_config), u.cache.value, busy) :
                  refresh_tools_cache' =
                      IF new_port # NoPort
                      THEN Some(SetPort(refresh_tools_cache.value, e.tool_id,
                                        e.version_index, new_port))
                      ELSE refresh_tools_cache
             /\ tools_to_update' = Append(tools_to_update, e.tool_id)
             /\ dupQueue' = Tail(dupQueue)
             /\ rpc' = PhaseAfter(Tail(dupQueue), missQueue,
                                  Append(tools_to_update, e.tool_id))
    /\ UNCHANGED <<program, autoVars, healthVars, portVars, statusVars, managerVars, envVars,
                   refresh_last_cache_time, declared, missQueue, writebacks>>

\* one round of the missing-port pass: get_free_port for a version whose port
\* is empty; the tool is appended to tools_to_update once, if a port was set
AssignMissing ==
    /\ program = "app"
    /\ rpc = "missing"
    /\ \E reached \in BOOLEAN :
         LET e == Head(missQueue)
             u == RefreshUsedPorts(PortRangeOf(_port_config), _used_ports_cache,
                                   _last_used_ports_check, now, store, reached)
         IN  /\ _used_ports_cache' = u.cache
             /\ _last_used_ports_check' = u.last
             /\ \E new_port \in FreePortReturns(PortRangeOf(_port_config), u.cache.value, busy) :
                  LET updates == IF new_port # NoPort /\ e.tool_id \notin Range(tools_to_update)
                                 THEN Append(tools_to_update, e.tool_id)
                                 ELSE tools_to_update
                  IN  /\ refresh_tools_cache' =
                            IF new_port # NoPort
                            THEN Some(SetPort(refresh_tools_cache.value, e.tool_id,
                                              e.version_index, new_port))
                            ELSE refresh_tools_cache
                      /\ tools_to_update' = updates
                      /\ rpc' = PhaseAfter(<<>>, Tail(missQueue), updates)
             /\ missQueue' = Tail(missQueue)
    /\ UNCHANGED <<program, autoVars, healthVars, portVars, statusVars, managerVars, envVars,
                   refresh_last_cache_time, declared, dupQueue, writebacks>>

\* the write-back of one element of tools_to_update: the versions of the tool
\* as they are now; a timeout is retried, another error is only printed
WriteBack ==
    /\ program = "app"
    /\ rpc = "write"
    /\ \E ok \in BOOLEAN :
         LET tool_id == Head(tools_to_update)
         IN  /\ store' = IF ok THEN WriteVersions(store, tool_id,
                                        VersionsOf(refresh_tools_cache.value, tool_id))
                         ELSE store
             /\ writebacks' = Append(writebacks, [tool_id |-> tool_id, ok |-> ok])
    /\ tools_to_update' = Tail(tools_to_update)
    /\ rpc' = PhaseAfter(<<>>, <<>>, Tail(tools_to_update))
    /\ UNCHANGED <<program, autoVars, healthVars, portVars, statusVars, managerVars, busy, now, advances,
                   refresh_tools_cache, refresh_last_cache_time, _used_ports_cache,
                   _last_used_ports_check, declared, dupQueue, missQueue>>

\* whether manager.update_tools raises for the list refresh_tools has made:
\* the request then ends in the except clause with status 500
RefreshFails(tools) == ExtractRaises(tool_args_converter(ActiveRows(tools)))

\* tool_args_converter(active_tools), manager.update_tools, the thread started
\* for check_after_adding (followed in SpecStatus) and the return, with which
\* the locals of the call are gone
RefreshUpdate ==
    /\ program = "app"
    /\ rpc = "update"
    /\ \E failing \in {{}, port_range} :
         LET m == update_tools(Manager,
                               tool_args_converter(ActiveRows(refresh_tools_cache.value)),
                               failing)
         IN  /\ _processes' = m.processes
             /\ _commands' = m.commands
             /\ ops' = m.ops
    /\ checkers' = IF RefreshFails(refresh_tools_cache.value) THEN checkers
                   ELSE SpawnChecker(checkers)
    /\ rpc' = "idle"
    /\ declared' = <<>>
    /\ writebacks' = <<>>
    /\ UNCHANGED <<_tools_cache, _last_cache_time, _tool_restart_attempts, restarts>>
    /\ UNCHANGED <<program, autoVars, healthVars, portVars, envVars, refresh_tools_cache,
                   refresh_last_cache_time, _used_ports_cache, _last_used_ports_check,
                   dupQueue, missQueue, tools_to_update>>

\* time passes between two requests
Advance ==
    /\ program = "app"
    /\ rpc = "idle"
    /\ advances < MaxAdvances
    /\ \E d \in RefreshTimeSteps : now' = now + d
    /\ advances' = advances + 1
    /\ UNCHANGED <<program, autoVars, healthVars, portVars, statusVars, managerVars, store, busy,
                   refreshVars>>

(***************************************************************************)
(* The store the app finds when it starts.                                 *)
(***************************************************************************)
AppNames == <<"A", "B", "C">>

RefreshArgs == <<"uvx", "mcp-server-fetch">>

\* lists of 1..MaxVersions versions with the given ports
VersionLists(ports) ==
    UNION {[1..k -> {Version(Released(p, RefreshArgs, <<>>)) : p \in ports}]
             : k \in 1..MaxVersions}

RefreshRows(n) ==
    IF n = "A" THEN {AppRow(n, "own", "Online", <<Version(Released(p, RefreshArgs, <<>>))>>)
                       : p \in {"10001", ""}}
    ELSE IF n = "B" THEN {AppRow(n, "own", "Online", vs) : vs \in VersionLists({"10001", ""})}
    ELSE {AppRow(n, "own", st, <<Version(Released(p, RefreshArgs, <<>>))>>)
            : st \in {"Online", "Offline"}, p \in {"10001"}}

\* A, then optionally B, then optionally C
RefreshStores ==
    {<<a>> \o b \o c : a \in RefreshRows("A"),
                       b \in {<<>>} \cup {<<r>> : r \in RefreshRows("B")},
                       c \in {<<>>} \cup {<<r>> : r \in RefreshRows("C")}}

InitRefresh ==
    /\ program = "app"
    /\ ManagerInit
    /\ RefreshInit
    /\ StatusInit
    /\ store \in RefreshStores
    /\ busy \in {{}, port_range \ {start_port}}
    /\ now = StartTime
    /\ advances = 0
    /\ HealthUnused
    /\ AutoUnused

NextRefresh ==
    \/ RefreshBegin
    \/ ReassignDuplicate
    \/ AssignMissing
    \/ WriteBack
    \/ RefreshUpdate
    \/ Advance

SpecRefresh == InitRefresh /\ [][NextRefresh]_vars

(***************************************************************************)
(* Properties of refresh_tools                                             *)
(***************************************************************************)
\* the port tool_args_converter takes for a tool: that of the last version
LatestPort(row) == Last(row.versions).released.port

\* both passes of the current refresh are over
PassesDone == rpc \in {"write", "update"}

\* C4 (as stated): once the duplicate-port and the missing-port pass are over,
\* no two active tools of the list hold the same port.
C4_NoSharedPort ==
    PassesDone =>
        LET active == ActiveRows(refresh_tools_cache.value)
        IN  \A i, j \in 1..Len(active) :
              (i # j /\ LatestPort(active[i]) # "") =>
                  LatestPort(active[i]) # LatestPort(active[j])

\* the refresh found exactly two active tools, of one version each, that
\* declare the same port
TwoDeclareSamePort ==
    /\ Len(declared) = 2
    /\ Len(declared[1].versions) = 1 /\ Len(declared[2].versions) = 1
    /\ LatestPort(declared[1]) # ""
    /\ LatestPort(declared[1]) = LatestPort(declared[2])

\* C5 (as stated): of two active tools that declare the same port P, the first
\* keeps P, the later one gets another port of the configured range, and the
\* only write-back issued is the one for the later tool.
C5_LaterToolReassigned ==
    (rpc = "update" /\ TwoDeclareSamePort) =>
        LET P      == LatestPort(declared[1])
            active == ActiveRows(refresh_tools_cache.value)
        IN  /\ LatestPort(active[1]) = P
            /\ LatestPort(active[2]) # P
            /\ LatestPort(active[2]) \in DOMAIN IntTable
            /\ IntTable[LatestPort(active[2])] \in port_range
            /\ Len(writebacks) = 1
            /\ writebacks[1].tool_id = declared[2].name

(***************************************************************************)
(* get_tools_info (utils/_check_tools_status.py)                           *)
(***************************************************************************)
PREDEFINED_COMPANY_ID == "95901eaa-c08d-4b0a-a5d6-3063a622cb98"

\* whether get_tools_info answers from its cache
StatusCacheFresh(cache, last, t) == ~cache.is_none /\ (t - last) < _cache_ttl

\* the except branch gives up the cached list
FetchFailed_empty(cache) == <<>>

\* the except branch: the cached list, however old, or [] when there is none
FetchFailed(cache) == IF cache.is_none THEN <<>> ELSE cache.value

\* the list get_tools_info returns, the two globals as it leaves them and whether
\* it called the store.  outcome is what the select does when it is called:
\* "ok", "none" (response.data is None) or "raised".
get_tools_info(cache, last, t, rows, outcome) ==
    IF StatusCacheFresh(cache, last, t)
    THEN [result |-> cache.value, cache |-> cache, last |-> last, contacted |-> FALSE]
    ELSE IF outcome = "ok"
    THEN [result |-> rows, cache |-> Some(rows), last |-> t, contacted |-> TRUE]
    ELSE IF outcome = "none"
    THEN [result |-> <<>>, cache |-> cache, last |-> last, contacted |-> TRUE]
    ELSE [result |-> FetchFailed(cache), cache |-> cache, last |-> last,
          contacted |-> TRUE]

(***************************************************************************)
(* check_tools_status (utils/_check_tools_status.py)                       *)
(***************************************************************************)
\* int(row['versions'][0]['released']['port']) as a set: empty for None
safe_get_port(row) ==
    IF row.versions = <<>> THEN {}
    ELSE LET released == row.versions[1].released
         IN  IF released.falsy \/ IntRaises(released.port) THEN {}
             ELSE {IntTable[released.port]}

\* all_ports, as a set
AllPorts(tools_info) ==
    UNION {safe_get_port(tools_info[i]) : i \in 1..Len(tools_info)}

is_predefined(row) == row.company_id = PREDEFINED_COMPANY_ID

has_env_vars(row) ==
    /\ is_predefined(row)
    /\ \E v \in 1..Len(row.versions) :
         ~row.versions[v].released.falsy /\ row.versions[v].released.env # <<>>

\* the status that goes into the update of a tool that is not Offline
FinalStatus(row, status) ==
    IF is_predefined(row) /\ has_env_vars(row) THEN "Predefined" ELSE status

UpdateOf(row, status) ==
    [tool_id |-> row.name, on_status |-> status, versions |-> row.versions]

\* row['versions'] replaced by a deep copy whose first port is "" (the rows of
\* this model always carry a released dict)
ClearPort(row) ==
    IF row.versions = <<>> \/ row.versions[1].released.falsy THEN row
    ELSE [row EXCEPT !.versions[1].released.port = ""]

\* time_since_last_attempt >= _restart_cooldown holds one second early
CooldownOver_early(elapsed) == elapsed >= _restart_cooldown - 1

CooldownOver(elapsed) == elapsed >= _restart_cooldown

\* the restart condition without its test of the company
Eligible_anyCompany(row) ==
    /\ row.on_status # "Offline"
    /\ row.on_status # "Predefined"

\* the other three conjuncts of the restart condition
Eligible(row) ==
    /\ ~is_predefined(row)
    /\ row.on_status # "Offline"
    /\ row.on_status # "Predefined"

\* _tool_restart_attempts.get(tool_id, 0)
LastAttempt(attempts, tool_id) == IF tool_id \in DOMAIN attempts THEN attempts[tool_id] ELSE 0

\* supabase.table('tools').upsert(batch, on_conflict="tool_id")
RECURSIVE Upsert(_, _)
Upsert(rows, updates) ==
    IF updates = <<>> THEN rows
    ELSE LET u == Head(updates)
         IN  Upsert([i \in 1..Len(rows) |->
                        IF rows[i].name = u.tool_id
                        THEN [rows[i] EXCEPT !.on_status = u.on_status,
                                             !.versions = u.versions]
                        ELSE rows[i]],
                    Tail(updates))

\* a thread past get_tools_info holds the list it got; fetched_at tells which
\* list object that is: the one the fetch at that time returned
HoldsList(c) == c.pc \in {"ports", "rows", "decide"}

\* line 222: tools_info = get_tools_info()
GetToolsInfo(t) ==
    /\ program = "app"
    /\ checkers[t].pc = "start"
    /\ \E outcome \in {"ok", "none", "raised"} :
         LET g == get_tools_info(_tools_cache, _last_cache_time, now, store, outcome)
         IN  /\ _tools_cache' = g.cache
             /\ _last_cache_time' = g.last
             /\ checkers' = [checkers EXCEPT ![t] =
                    [pc |-> "ports", tools_info |-> g.result, fetched_at |-> g.last,
                     outcome |-> IF g.contacted THEN outcome ELSE "cached"]]
    /\ UNCHANGED <<program, autoVars, healthVars, portVars, managerVars, envVars, refreshVars,
                   _tool_restart_attempts, restarts>>

\* lines 225-233: all_ports, the early return, get_ports_info.  The ports of
\* busy are held by a foreign process; any of the others may have its tool
\* listening.
GetPortsInfo(t) ==
    /\ program = "app"
    /\ checkers[t].pc = "ports"
    /\ LET c == checkers[t]
           all_ports == AllPorts(c.tools_info)
       IN  IF all_ports = {}
           THEN checkers' = [checkers EXCEPT ![t] = NoChecker]
           ELSE \E up \in SUBSET all_ports :
                  /\ (busy \cap all_ports) \subseteq up
                  /\ checkers' = [checkers EXCEPT ![t] =
                        [pc |-> "rows", tools_info |-> c.tools_info,
                         fetched_at |-> c.fetched_at, ports_info |-> up, i |-> 1,
                         updates |-> <<>>, tools_to_start |-> <<>>]]
    /\ UNCHANGED <<program, autoVars, healthVars, portVars, managerVars, envVars, refreshVars,
                   _tools_cache, _last_cache_time, _tool_restart_attempts, restarts>>

\* the thread after the update of its current row has been appended
NextRow(c, update) ==
    [pc |-> "rows", tools_info |-> c.tools_info, fetched_at |-> c.fetched_at,
     ports_info |-> c.ports_info, i |-> c.i + 1, updates |-> Append(c.updates, update),
     tools_to_start |-> c.tools_to_start]

\* a list with its i-th row replaced
WithRow(rows, i, row) == [rows EXCEPT ![i] = row]

\* one round of the loop over tools_info up to the read of the restart record
\* (line 274), or to the end of the round for a row that does not get there.
\* The Offline branch changes the row dict, which every holder of that list
\* sees: the cache and the other threads.
CheckRow(t) ==
    /\ program = "app"
    /\ checkers[t].pc = "rows"
    /\ checkers[t].i <= Len(checkers[t].tools_info)
    /\ LET c    == checkers[t]
           row  == c.tools_info[c.i]
           port == safe_get_port(row)
       IN  IF row.on_status = "Offline"
           THEN LET cleared == ClearPort(row)
                    shared(u) == /\ u # t
                                 /\ HoldsList(checkers[u])
                                 /\ checkers[u].fetched_at = c.fetched_at
                                 /\ checkers[u].tools_info # <<>>
                    mine == [c EXCEPT !.tools_info = WithRow(c.tools_info, c.i, cleared)]
                IN  /\ checkers' = [u \in DOMAIN checkers |->
                          IF u = t THEN NextRow(mine, UpdateOf(cleared, "Offline"))
                          ELSE IF shared(u)
                          THEN [checkers[u] EXCEPT
                                   !.tools_info = WithRow(checkers[u].tools_info, c.i, cleared)]
                          ELSE checkers[u]]
                    /\ _tools_cache' =
                          IF ~_tools_cache.is_none /\ _last_cache_time = c.fetched_at
                          THEN Some(WithRow(_tools_cache.value, c.i, cleared))
                          ELSE _tools_cache
           ELSE /\ UNCHANGED _tools_cache
                /\ IF port = {}
                   THEN checkers' = [checkers EXCEPT ![t] =
                            NextRow(c, UpdateOf(row, FinalStatus(row, "Inactive")))]
                   ELSE IF port \cap c.ports_info = {}
                   THEN checkers' = [checkers EXCEPT ![t] =
                            [pc |-> "decide", tools_info |-> c.tools_info,
                             fetched_at |-> c.fetched_at, ports_info |-> c.ports_info,
                             i |-> c.i, updates |-> c.updates,
                             tools_to_start |-> c.tools_to_start,
                             current_time |-> now,
                             recorded |-> row.name \in DOMAIN _tool_restart_attempts,
                             last_attempt |-> LastAttempt(_tool_restart_attempts, row.name)]]
                   ELSE checkers' = [checkers EXCEPT ![t] =
                            NextRow(c, UpdateOf(row, FinalStatus(row,
                                IF port \cap busy = {} THEN "Online"
                                ELSE "Inactive, Port is used")))]
    /\ UNCHANGED <<program, autoVars, healthVars, portVars, managerVars, envVars, refreshVars,
                   _last_cache_time, _tool_restart_attempts, restarts>>

\* lines 275-315 for a tool whose port is not listening: the restart decision
\* from the values read at lines 273-274, the write of the record, the update
Decide(t) ==
    /\ program = "app"
    /\ checkers[t].pc = "decide"
    /\ LET c       == checkers[t]
           row     == c.tools_info[c.i]
           time_since_last_attempt == c.current_time - c.last_attempt
           restart == Eligible(row) /\ CooldownOver(time_since_last_attempt)
           next    == NextRow(c, UpdateOf(row, FinalStatus(row, "Inactive, Port not found")))
       IN  IF restart
           THEN /\ _tool_restart_attempts' =
                      Put(_tool_restart_attempts, row.name, c.current_time)
                /\ restarts' = Put(restarts, row.name,
                      Append(IF row.name \in DOMAIN restarts THEN restarts[row.name]
                             ELSE <<>>, c.current_time))
                /\ checkers' = [checkers EXCEPT ![t] =
                      [next EXCEPT !.tools_to_start = Append(c.tools_to_start, row.name)]]
           ELSE /\ UNCHANGED <<_tool_restart_attempts, restarts>>
                /\ checkers' = [checkers EXCEPT ![t] = next]
    /\ UNCHANGED <<program, autoVars, healthVars, portVars, managerVars, envVars, refreshVars,
                   _tools_cache, _last_cache_time>>

\* lines 335-341: update_tools_info_batch, whose exception is only printed, then
\* start_tool for every tool of tools_to_start; the thread ends
UpdateToolsInfo(t) ==
    /\ program = "app"
    /\ checkers[t].pc = "rows"
    /\ checkers[t].i > Len(checkers[t].tools_info)
    /\ \E ok \in BOOLEAN :
         store' = IF ok THEN Upsert(store, checkers[t].updates) ELSE store
    /\ checkers' = [checkers EXCEPT ![t] = NoChecker]
    /\ UNCHANGED <<program, autoVars, healthVars, portVars, managerVars, busy, now, advances,
                   refreshVars, _tools_cache, _last_cache_time, _tool_restart_attempts,
                   restarts>>

\* GET /refresh ends by starting a status check
CheckAfterAdding ==
    /\ program = "app"
    /\ FreeCheckers(checkers) # {}
    /\ checkers' = SpawnChecker(checkers)
    /\ UNCHANGED <<program, autoVars, healthVars, portVars, managerVars, envVars, refreshVars,
                   _tools_cache, _last_cache_time, _tool_restart_attempts, restarts>>

\* the statuses a user writes with PUT /tools/{tool_id}
UserStatuses == {"Online", "Offline", "Predefined"}

\* update_tool: the row is written, then refresh_tools, of which this
\* specification follows the status check it starts unless it failed before
UpdateTool ==
    /\ program = "app"
    /\ \E i \in 1..Len(store), on_status \in UserStatuses, refreshed \in BOOLEAN :
         /\ store[i].on_status # on_status
         /\ store' = [store EXCEPT ![i].on_status = on_status]
         /\ IF refreshed
            THEN FreeCheckers(checkers) # {} /\ checkers' = SpawnChecker(checkers)
            ELSE UNCHANGED checkers
    /\ UNCHANGED <<program, autoVars, healthVars, portVars, managerVars, busy, now, advances,
                   refreshVars, _tools_cache, _last_cache_time, _tool_restart_attempts,
                   restarts>>

\* time passes between two status checks: a check is over within the second
StatusAdvance ==
    /\ program = "app"
    /\ advances < MaxAdvances
    /\ \A t \in DOMAIN checkers : checkers[t].pc = "none"
    /\ \E d \in StatusTimeSteps : now' = now + d
    /\ advances' = advances + 1
    /\ UNCHANGED <<program, autoVars, healthVars, portVars, managerVars, store, busy, refreshVars,
                   statusVars>>

\* the rows the status checker finds: tool A of a customer, or a tool B that is
\* switched off, has no port or belongs to the predefined company
StatusRows(n) ==
    IF n = "A"
    THEN {AppRow(n, "own", "Online", <<Version(Released("10001", RefreshArgs, <<>>))>>)}
    ELSE {AppRow(n, "own", "Offline", <<Version(Released("10002", RefreshArgs, <<>>))>>),
          AppRow(n, "own", "Online", <<Version(Released("", RefreshArgs, <<>>))>>),
          AppRow(n, PREDEFINED_COMPANY_ID, "Online",
                 <<Version(Released("10002", RefreshArgs, <<<<"KEY", "value">>>>))>>),
          AppRow(n, PREDEFINED_COMPANY_ID, "Online",
                 <<Version(Released("10002", RefreshArgs, <<>>))>>)}

\* one tool in the store
StatusStores == {<<a>> : a \in StatusRows("A") \cup StatusRows("B")}

\* the state of the app before the first status check
InitCheck ==
    /\ program = "app"
    /\ ManagerInit
    /\ RefreshInit
    /\ StatusInit
    /\ store \in StatusStores
    /\ busy \in {{}, {10002}}
    /\ now = StartTime
    /\ advances = 0
    /\ HealthUnused
    /\ AutoUnused

\* no status check is running
AllIdle == \A t \in DOMAIN checkers : checkers[t].pc = "none"

\* a refresh request, or an update of a tool, that arrives while no status check
\* is running
RequestCheck == AllIdle /\ CheckAfterAdding

RequestUpdate == AllIdle /\ UpdateTool

CheckerStep ==
    \E t \in 1..MaxCheckers :
        \/ GetToolsInfo(t)
        \/ GetPortsInfo(t)
        \/ CheckRow(t)
        \/ Decide(t)
        \/ UpdateToolsInfo(t)

\* status checks that run one after the other
NextCheck ==
    \/ RequestCheck
    \/ RequestUpdate
    \/ StatusAdvance
    \/ CheckerStep

SpecCheck == InitCheck /\ [][NextCheck]_vars

\* the stores in which concurrent status checks are followed
RaceStores ==
    {<<a>> : a \in StatusRows("A")}
    \cup {<<a, AppRow("B", "own", "Offline",
                     <<Version(Released("10002", RefreshArgs, <<>>))>>)>>
             : a \in StatusRows("A")}

InitStatus ==
    /\ program = "app"
    /\ ManagerInit
    /\ RefreshInit
    /\ StatusInit
    /\ store \in RaceStores
    /\ busy = {}
    /\ now = StartTime
    /\ advances = 0
    /\ HealthUnused
    /\ AutoUnused

\* status checks in up to MaxCheckers threads at a time
NextStatus ==
    \/ CheckAfterAdding
    \/ StatusAdvance
    \/ CheckerStep

SpecStatus == InitStatus /\ [][NextStatus]_vars

(***************************************************************************)
(* Properties of check_tools_status and get_tools_info                     *)
(***************************************************************************)
\* C6 (as stated): any two restarts check_tools_status schedules for one tool
\* are at least _restart_cooldown seconds apart, however the status checks that
\* run in threads interleave.
C6_RestartsCooldownApart ==
    \A n \in DOMAIN restarts :
        \A i, j \in 1..Len(restarts[n]) :
            i < j => \/ restarts[n][j] - restarts[n][i] >= _restart_cooldown
                     \/ restarts[n][i] - restarts[n][j] >= _restart_cooldown

\* thread t takes the restart decision for its current row
DecideStep(t) == checkers[t].pc = "decide" /\ checkers'[t].pc # "decide"

\* ... and schedules a restart
Schedules(t) ==
    Len(checkers'[t].tools_to_start) = Len(checkers[t].tools_to_start) + 1

\* C7 (amended): for a tool with a recorded last attempt whose port is found not
\* listening, the check made cooldown - 1 seconds after the recorded time
\* schedules no restart and leaves the record alone; the check made
\* cooldown + 1 seconds after it schedules a restart and records its own time,
\* provided the tool does not belong to the predefined company and its status
\* is not Predefined.
C7_CooldownBoundary ==
    [][\A t \in DOMAIN checkers :
          (DecideStep(t) /\ checkers[t].recorded) =>
              LET c   == checkers[t]
                  row == c.tools_info[c.i]
              IN  /\ c.current_time = c.last_attempt + _restart_cooldown - 1 =>
                        /\ ~Schedules(t)
                        /\ _tool_restart_attempts' = _tool_restart_attempts
                  /\ (/\ c.current_time = c.last_attempt + _restart_cooldown + 1
                      /\ row.company_id # PREDEFINED_COMPANY_ID
                      /\ row.on_status # "Predefined") =>
                        /\ Schedules(t)
                        /\ _tool_restart_attempts'[row.name] = c.current_time]_vars

\* two restarts of one tool were scheduled cooldown + 1 seconds apart
C7_Witness ==
    \E n \in DOMAIN restarts :
        \E i \in 1..Len(restarts[n]) :
            /\ i < Len(restarts[n])
            /\ restarts[n][i + 1] = restarts[n][i] + _restart_cooldown + 1

\* C7 (as stated): the same for every tool whose port is found not listening.
C7_AsStated ==
    [][\A t \in DOMAIN checkers :
          (DecideStep(t) /\ checkers[t].recorded) =>
              LET c   == checkers[t]
                  row == c.tools_info[c.i]
              IN  /\ c.current_time = c.last_attempt + _restart_cooldown - 1 =>
                        /\ ~Schedules(t)
                        /\ _tool_restart_attempts' = _tool_restart_attempts
                  /\ c.current_time = c.last_attempt + _restart_cooldown + 1 =>
                        /\ Schedules(t)
                        /\ _tool_restart_attempts'[row.name] = c.current_time]_vars

\* thread t returns from get_tools_info
GetStep(t) == checkers[t].pc = "start" /\ checkers'[t].pc = "ports"

\* C10: while the cache is younger than _cache_ttl, get_tools_info returns the
\* cached list and does not call the store; when the cache has expired and the
\* fetch raises, it returns the cached list; in both cases the cache and its
\* timestamp stay as they were.
C10_CachedOrLastGood ==
    [][\A t \in DOMAIN checkers :
          (GetStep(t) /\ ~_tools_cache.is_none) =>
              LET young == now - _last_cache_time < _cache_ttl
                  got   == checkers'[t]
              IN  /\ young => /\ got.outcome = "cached"
                              /\ got.tools_info = _tools_cache.value
                              /\ _tools_cache' = _tools_cache
                              /\ _last_cache_time' = _last_cache_time
                  /\ (~young /\ got.outcome = "raised") =>
                        /\ got.tools_info = _tools_cache.value
                        /\ _tools_cache' = _tools_cache
                        /\ _last_cache_time' = _last_cache_time]_vars

\* a thread got the expired list of the cache from a fetch that raised
C10_Witness ==
    \E t \in DOMAIN checkers :
        /\ checkers[t].pc = "ports"
        /\ checkers[t].outcome = "raised"
        /\ checkers[t].tools_info # <<>>
        /\ now - _last_cache_time >= _cache_ttl

(***************************************************************************)
(* MCPAutoManager with tool records that make _parse_mcp_tools raise       *)
(***************************************************************************)
\* the stores of AutoStores, and those in which the record of B has a null env
LoopStores ==
    AutoStores
    \cup {rows \o <<ToolRow("B", "Online",
                            <<Version(NullEnvReleased("10001", <<"uvx", "mcp-server-fetch">>))>>)>>
            : rows \in {r \in AutoStores : \A i \in 1..Len(r) : r[i].name # "B"}}

NextLoop ==
    \/ StartFrom(LoopStores)
    \/ DetectFrom(LoopStores)
    \/ StopBegin
    \/ StopEnd
    \/ LaunchThreads
    \/ HealthCheck
    \/ \E t \in DOMAIN threads : ThreadSpawn(t)
    \/ \E t \in DOMAIN threads : ThreadRecord(t)

SpecLoop == InitAuto /\ [][NextLoop]_vars

\* C11 (as stated): the control loop of MCPAutoManager never ends because of a
\* tool record, at start-up or in a tick.
C11_LoopNeverExits == pc # "exited"

\* C12 (as stated): for each tool name at most one process spawned by the
\* manager is alive, and no live process is without a handle in the
\* running-process table, a start thread or the waiting stop.
C12_OneLiveProcessPerName ==
    \A n \in NameSet :
        /\ LiveOf(n, running_processes, threads, waited, stopping, orphans) <= 1
        /\ \A o \in DOMAIN orphans : o.name # n

\* C13 (as stated): the running-process table changes only under a lock, so
\* while _stop_single_tool is between its membership test and its `del` no
\* other thread changes the table.
C13_NoWriteDuringStop ==
    [][(stopping # "" /\ stopping' = stopping) => running_processes' = running_processes]_vars

(***************************************************************************)
(* Malformed tool records in a batch of the app                            *)
(***************************************************************************)
\* the latest released configuration has a port int() accepts and some args
WellFormed(tool) ==
    /\ tool.versions # <<>>
    /\ ~Last(tool.versions).released.falsy
    /\ ~IntRaises(Last(tool.versions).released.port)
    /\ Last(tool.versions).released.args # <<>>

\* the batch without its malformed records
WellFormedOnly(tools) == SelectSeq(tools, WellFormed)

\* C14 (as stated): a batch with malformed records is translated and
\* reconciled exactly as the same batch without them.
C14_MalformedLeftOut ==
    program = "app" =>
        \A active_tools \in ProxyStores, failing \in SUBSET {10001, 10003} :
            update_tools(Manager, tool_args_converter(active_tools), failing)
                = update_tools(Manager, tool_args_converter(WellFormedOnly(active_tools)),
                               failing)

(***************************************************************************)
(* refresh_tools when get_free_port returns None                           *)
(***************************************************************************)
\* the active tools of the list without those whose latest port is still
\* empty after the missing-port pass: get_free_port had no port for them
WithPort(tools) == SelectSeq(ActiveRows(tools), LAMBDA r : LatestPort(r) # "")

\* C15 (as stated): when the passes are over, refresh_tools does not fail and
\* reconciles the tools that have a port exactly as if a tool for which no
\* free port was found were not in the list.
C15_NoPortToolLeftOut ==
    rpc = "update" =>
        /\ ~RefreshFails(refresh_tools_cache.value)
        /\ \A failing \in {{}, port_range} :
             update_tools(Manager,
                          tool_args_converter(ActiveRows(refresh_tools_cache.value)), failing)
               = update_tools(Manager,
                              tool_args_converter(WithPort(refresh_tools_cache.value)), failing)

(***************************************************************************)
(* A spawn that fails                                                      *)
(***************************************************************************)
\* the ports for which update_tools tried Popen and failed
FailedPorts(m) == {m.ops[i].port : i \in {j \in 1..Len(m.ops) : m.ops[j].op = "spawn_failed"}}

\* update_tools with failing spawns against the same call without failures:
\* a port whose spawn failed has no process and no command, every other port
\* is recorded as in the failure-free call, and the same stops and attempts
\* are made in the same order
FailureIsLocal(m, tools_data, failing) ==
    LET bad  == update_tools(m, tools_data, failing)
        good == update_tools(m, tools_data, {})
    IN  /\ FailedPorts(bad) \cap (DOMAIN bad.processes \cup DOMAIN bad.commands) = {}
        /\ \A port \in DOMAIN good.processes \ FailedPorts(bad) :
             /\ port \in DOMAIN bad.processes /\ port \in DOMAIN bad.commands
             /\ bad.processes[port] = good.processes[port]
             /\ bad.commands[port] = good.commands[port]
        /\ DOMAIN bad.processes \subseteq DOMAIN good.processes
        /\ Len(bad.ops) = Len(good.ops)
        /\ \A i \in 1..Len(good.ops) :
             /\ bad.ops[i].port = good.ops[i].port
             /\ bad.ops[i].class = good.ops[i].class
             /\ bad.ops[i].op = IF good.ops[i].op = "spawn" /\ good.ops[i].port \in failing
                                THEN "spawn_failed" ELSE good.ops[i].op

\* a start thread of MCPAutoManager ends because _start_single_tool returned None
SpawnFails(t) == t.stage = "start" /\ threads' = RemoveCopy(threads, t)

\* C16: a failed spawn leaves the tool without an entry and touches nothing
\* else.  In update_tools every other added or updated port is started and
\* recorded as in the call without the failure; in MCPAutoManager the thread
\* whose spawn fails writes nothing and every other start thread is still there.
C16_SpawnFailureIsLocal ==
    [][/\ program = "app" =>
            \A active_tools \in ProxyStores, failing \in SUBSET {10001, 10003} :
                FailureIsLocal(Manager, tool_args_converter(active_tools), failing)
       /\ \A t \in DOMAIN threads :
            SpawnFails(t) =>
                /\ running_processes' = running_processes
                /\ orphans' = orphans
                /\ \A u \in DOMAIN threads \ {t} :
                     u \in DOMAIN threads' /\ threads'[u] = threads[u]]_vars

\* update_tools failed to spawn one port and spawned another, or a tick that
\* added two tools has no thread left and one tool in the table
C16_Witness ==
    \/ /\ program = "app"
       /\ \E i, j \in 1..Len(ops) : ops[i].op = "spawn_failed" /\ ops[j].op = "spawn"
    \/ /\ program = "mcp_auto_manager"
       /\ pc = "health"
       /\ Len(changes.added) = 2
       /\ threads = EmptyMap
       /\ Cardinality(DOMAIN running_processes) = 1

(***************************************************************************)
(* _stop_single_tool                                                       *)
(***************************************************************************)
\* C17: a call of _stop_single_tool that terminated a process and waited
\* returns next, with no second attempt, and the table then has no entry for
\* the name, whether the wait returned or timed out; a call that finds no
\* entry returns at once and the table has none.
C17_StopReturnsAndDeletes ==
    [][/\ (stopping # "" /\ stopping' # stopping) =>
             /\ stopping' = ""
             /\ stops' = Tail(stops)
             /\ stopping \notin DOMAIN running_processes'
       /\ (pc = "handle" /\ stopping = "" /\ stopping' = "" /\ stops # <<>> /\ stops' # stops) =>
             Head(stops).name \notin DOMAIN running_processes']_vars

\* the tick has stopped every tool it had to stop, and one wait timed out:
\* the process waited for still runs
C17_Witness ==
    /\ pc = "handle"
    /\ changes.removed # <<>>
    /\ stops = <<>> /\ stopping = ""
    /\ \E o \in DOMAIN orphans : o.state = "terminating"

(***************************************************************************)
(* get_free_port over ranges wide enough for the sampled path              *)
(***************************************************************************)
\* ranges of SampleSize + 3 ports (as many as are probed) and up to MaxSpare more
WideConfigs ==
    {[start_port |-> start_port, end_port |-> start_port + SampleSize + 2 + k]
       : k \in 0..MaxSpare}

\* the ports of a range that may be free while all the others are taken
MaybeFree(config) ==
    {config.start_port, config.start_port + 1, config.start_port + 2, config.end_port}

\* every port of the range is taken, but for some of the ports of MaybeFree
BusySets(config) ==
    {(config.start_port..config.end_port) \ F : F \in SUBSET MaybeFree(config)}

\* one tool whose port is in the range, or empty
PortStores ==
    {<<AppRow("A", "own", "Online", <<Version(Released(p, RefreshArgs, <<>>))>>)>>
       : p \in {"10001", "10002", ""}}

InitPort ==
    /\ program = "app"
    /\ ManagerInit
    /\ RefreshGlobals
    /\ StatusInit
    /\ _port_config \in WideConfigs
    /\ store \in PortStores
    /\ busy \in BusySets(_port_config)
    /\ now = StartTime
    /\ advances = 0
    /\ HealthUnused
    /\ AutoUnused

\* one call of get_free_port: the used-ports cache is refreshed if it is None
\* or older than its lifetime, then the candidates are probed
GetFreePort ==
    /\ program = "app"
    /\ \E reached \in BOOLEAN :
         LET u == RefreshUsedPorts(PortRangeOf(_port_config), _used_ports_cache,
                                   _last_used_ports_check, now, store, reached)
         IN  /\ _used_ports_cache' = u.cache
             /\ _last_used_ports_check' = u.last
             /\ free_port' \in get_free_port(PortRangeOf(_port_config), u.cache.value, busy)
    /\ UNCHANGED <<program, autoVars, healthVars, managerVars, envVars, statusVars,
                   _port_config, rpc, refresh_tools_cache, refresh_last_cache_time,
                   declared, dupQueue, missQueue, tools_to_update, writebacks>>

NextPort ==
    \/ GetFreePort
    \/ Advance

SpecPort == InitPort /\ [][NextPort]_vars

\* C18: a port get_free_port returns, from the loop over the candidates or
\* from the full scan, is the decimal text of a port of the configured range
\* start_port..end_port; otherwise it returns None.
C18_ReturnedPortInRange ==
    /\ free_port.path \in {"probe", "scan"} =>
          \E p \in _port_config.start_port.._port_config.end_port : free_port.port = Str(p)
    /\ free_port.path \notin {"probe", "scan", "no call"} =>
          free_port.path = "none" /\ free_port.port = NoPort

\* the full scan returned a port: more than SampleSize candidates, none of the
\* ports probed was free
C18_Witness ==
    /\ free_port.path = "scan"
    /\ free_port.port # NoPort
    /\ Cardinality(PortRangeOf(_port_config) \ _used_ports_cache.value) > SampleSize

(***************************************************************************)
(* The classes of _detect_tool_changes                                     *)
(***************************************************************************)
\* the step of a tick in which _detect_tool_changes returns
DetectStep == program = "mcp_auto_manager" /\ pc = "idle" /\ pc' # "idle"

\* the names listed in a class of tool dicts
ClassNames(tools) == {tools[i].name : i \in 1..Len(tools)}

\* how many of the four classes list the name
ClassCount(ch, n) ==
    Cardinality({i \in 1..Len(ch.added) : ch.added[i].name = n})
    + Cardinality({i \in 1..Len(ch.modified) : ch.modified[i].name = n})
    + Cardinality({i \in 1..Len(ch.unchanged) : ch.unchanged[i].name = n})
    + Cardinality({i \in 1..Len(ch.removed) : ch.removed[i] = n})

\* C19: _detect_tool_changes lists every name of the previous signature map
\* and of the parsed desired state exactly once, as added (new name), modified
\* (known, other signature), unchanged (known, same signature) or removed
\* (known, not desired), lists no other name, and leaves the signature map
\* with exactly the names and signatures of the desired state.
C19_ExactlyOneClass ==
    [][DetectStep =>
         LET prev    == current_tools_signatures
             desired == _parse_mcp_tools(fetched')
             names   == ClassNames(desired)
             tool(n) == desired[CHOOSE i \in 1..Len(desired) : desired[i].name = n]
             ch      == changes'
         IN  /\ \A n \in NameSet :
                  /\ ClassCount(ch, n) = IF n \in DOMAIN prev \cup names THEN 1 ELSE 0
                  /\ n \in ClassNames(ch.added) <=> (n \in names /\ n \notin DOMAIN prev)
                  /\ n \in ClassNames(ch.modified) <=>
                        (n \in names /\ n \in DOMAIN prev
                           /\ prev[n] # _get_tool_signature(tool(n)))
                  /\ n \in ClassNames(ch.unchanged) <=>
                        (n \in names /\ n \in DOMAIN prev
                           /\ prev[n] = _get_tool_signature(tool(n)))
                  /\ n \in Range(ch.removed) <=> (n \in DOMAIN prev /\ n \notin names)
             /\ DOMAIN current_tools_signatures' = names
             /\ \A n \in names :
                  current_tools_signatures'[n] = _get_tool_signature(tool(n))]_vars

\* a tick has found one tool modified and the other removed
C19_Witness ==
    /\ pc = "handle"
    /\ changes.modified # <<>>
    /\ changes.removed # <<>>

(***************************************************************************)
(* The tools a tick leaves alone                                           *)
(***************************************************************************)
\* the entry of running_processes under a name, or none
EntryOf(rp, n) == IF n \in DOMAIN rp THEN Some(rp[n]) ELSE NoneValue

\* C20 (as stated): from the diff to the end of the tick, the entry of a tool
\* the tick found unchanged stays as it is and no process of the tool is
\* spawned or terminated; in update_tools an unchanged port is neither stopped
\* nor spawned.
C20_UnchangedLeftAlone ==
    [][/\ (program = "mcp_auto_manager" /\ pc \in {"handle", "health"}) =>
             \A n \in ClassNames(changes.unchanged) :
                 /\ EntryOf(running_processes', n) = EntryOf(running_processes, n)
                 /\ LiveOf(n, running_processes', threads', waited', stopping', orphans')
                      = LiveOf(n, running_processes, threads, waited, stopping, orphans)
       /\ program = "app" =>
             \A port \in DOMAIN _commands :
                 (port \in DOMAIN _commands' /\ _commands'[port] = _commands[port]) =>
                     /\ _processes'[port] = _processes[port]
                     /\ \A i \in 1..Len(ops') : ops'[i].port # port]_vars

(***************************************************************************)
(* The signature of a process spec                                         *)
(***************************************************************************)
\* tool records to translate and sign: both names, two ports, two argument
\* lists, with and without an environment variable
SignRows ==
    {ToolRow(n, "Online", <<Version(Released(p, a, e))>>) :
        n \in NameSet, p \in {"10001", "10002"},
        a \in {<<"uvx", "mcp-server-fetch">>, <<"uvx", "mcp-server-time">>},
        e \in {<<>>, <<<<"KEY", "value">>>>}}

\* the process spec _parse_mcp_tools makes of one record
SpecOf(row) == _parse_mcp_tools(<<row>>)[1]

WriteBackStores ==
    {<<AppRow("A", "own", "Online", <<Version(Released("10001", RefreshArgs, <<>>))>>),
       AppRow("B", "own", "Online", <<Version(Released(p, RefreshArgs, <<>>))>>)>>
        : p \in {"10001", ""}}

InitWriteBack ==
    /\ program = "app"
    /\ ManagerInit
    /\ RefreshInit
    /\ StatusInit
    /\ store \in WriteBackStores
    /\ busy = {}
    /\ now = StartTime
    /\ advances = 0
    /\ HealthUnused
    /\ AutoUnused

\* the steps of the status check in the first thread
FirstChecker ==
    \/ GetToolsInfo(1)
    \/ GetPortsInfo(1)
    \/ CheckRow(1)
    \/ Decide(1)
    \/ UpdateToolsInfo(1)

\* requests are served one after the other within one lifetime of the caches;
\* beside them runs the thread of a status check.  A thread that is started
\* while that one is running has not been scheduled yet.
NextWriteBack ==
    \/ RefreshBegin
    \/ ReassignDuplicate
    \/ AssignMissing
    \/ WriteBack
    \/ RefreshUpdate
    \/ FirstChecker

SpecWriteBack == InitWriteBack /\ [][NextWriteBack]_vars

\* the tools whose versions this request has written to the table
WrittenBack == {writebacks[i].tool_id : i \in {j \in 1..Len(writebacks) : writebacks[j].ok}}

\* C22 (as stated): once refresh_tools has written back the versions of a tool,
\* the table holds those versions, so the reassigned port, for the rest of the
\* request: no write of the supervisor puts the former versions back.
C22_WrittenPortStays ==
    program = "app" =>
        \A n \in WrittenBack :
            VersionsOf(store, n) = VersionsOf(refresh_tools_cache.value, n)

(***************************************************************************)
(* The handlers of routes/tools.py that change the table and then call     *)
(* refresh_tools() with its default arguments.                             *)
(***************************************************************************)
\* the tool a user creates: one version, whose port create_tool overwrites
NewRow(name, port) ==
    AppRow(name, "own", "Online", <<Version(Released(port, RefreshArgs, <<>>))>>)

\* the names of the rows of a list
RowNames(rows) == {rows[i].name : i \in 1..Len(rows)}

\* the names users give their tools
ApiNames == {"A", "B"}

\* a list without its i-th row
WithoutRow(rows, i) == [k \in 1..(Len(rows) - 1) |-> IF k < i THEN rows[k] ELSE rows[k + 1]]

\* POST /tools: the name check, get_free_port for the version, the insert, then
\* `await refresh_tools()`, whose exception is only printed
CreateTool ==
    /\ program = "app"
    /\ rpc = "idle"
    /\ \E name \in ApiNames \ RowNames(store), reached \in BOOLEAN :
         LET u == RefreshUsedPorts(PortRangeOf(_port_config), _used_ports_cache,
                                   _last_used_ports_check, now, store, reached)
         IN  /\ _used_ports_cache' = u.cache
             /\ _last_used_ports_check' = u.last
             /\ \E port \in FreePortReturns(PortRangeOf(_port_config), u.cache.value, busy) :
                  LET rows == Append(store, NewRow(name, port))
                  IN  /\ store' = rows
                      /\ RefreshFrom({FALSE}, rows)
    /\ UNCHANGED <<program, autoVars, healthVars, portVars, statusVars, managerVars, busy, now,
                   advances>>

\* DELETE /tools/{tool_id}: the delete, then `await refresh_tools()`
DeleteTool ==
    /\ program = "app"
    /\ rpc = "idle"
    /\ \E i \in 1..Len(store) :
         LET rows == WithoutRow(store, i)
         IN  /\ store' = rows
             /\ RefreshFrom({FALSE}, rows)
    /\ UNCHANGED <<program, autoVars, healthVars, portVars, statusVars, managerVars, busy, now,
                   advances, _used_ports_cache, _last_used_ports_check>>

\* the app with one tool, before the first request
InitApi ==
    /\ program = "app"
    /\ ManagerInit
    /\ RefreshInit
    /\ StatusInit
    /\ store = <<NewRow("A", "10001")>>
    /\ busy = {}
    /\ now = StartTime
    /\ advances = 0
    /\ HealthUnused
    /\ AutoUnused

\* every request is a creation or a deletion; the status checks the requests
\* start are not followed
NextApi ==
    \/ CreateTool
    \/ DeleteTool
    \/ ReassignDuplicate
    \/ AssignMissing
    \/ WriteBack
    \/ RefreshUpdate
    \/ Advance

SpecApi == InitApi /\ [][NextApi]_vars

\* C23 (as stated): the reconciliation a creation or deletion triggers runs
\* against the tools the table holds after that mutation: while the request is
\* being served the list refresh_tools works on has exactly the names of the
\* table, so the created tool is in it and the deleted one is not.
C23_ReconcilesTheMutation ==
    (program = "app" /\ rpc # "idle") =>
        RowNames(refresh_tools_cache.value) = RowNames(store)

(***************************************************************************)
(* The restart decision of check_tools_status and the tools the table      *)
(* holds as switched off.                                                  *)
(***************************************************************************)
\* a tool that is administratively disabled
Disabled(row) == row.on_status \in {"Offline", "Predefined"} \/ is_predefined(row)

StoreDisabledNotRestarted ==
    [][\A t \in DOMAIN checkers :
          (DecideStep(t) /\ Schedules(t)) =>
              \A i \in 1..Len(store) :
                  store[i].name = checkers[t].tools_info[checkers[t].i].name =>
                      ~Disabled(store[i])]_vars

(***************************************************************************)
(* MCPAutoManager scheduled fairly: the loop of start_auto_management      *)
(* (schedule.run_pending, time.sleep) goes on for ever and every start     *)
(* thread gets to run.                                                     *)
(***************************************************************************)
\* the steps of the main thread
MainThread ==
    \/ StartAutoManagement
    \/ ScheduledDetect
    \/ StopBegin
    \/ StopEnd
    \/ LaunchThreads
    \/ HealthCheck

SpecAutoFair ==
    /\ SpecAuto
    /\ WF_vars(MainThread)
    /\ WF_vars(\E t \in DOMAIN threads : ThreadSpawn(t))
    /\ WF_vars(\E t \in DOMAIN threads : ThreadRecord(t))

\* the names of the desired state: the tools the latest tick parsed
DesiredNames == {tool.name : tool \in Range(_parse_mcp_tools(fetched))}

\* a start thread goes away without a process
SpawnFailed ==
    \E t \in DOMAIN threads : t.stage = "start" /\ threads' = RemoveCopy(threads, t)

\* from some tick on the desired state stays as it is and no spawn fails
Settles == <>[][fetched' = fetched /\ ~SpawnFailed]_vars

\* the table has an entry for every tool of the desired state and for no other
Converged == pc # "boot" /\ DOMAIN running_processes = DesiredNames

\* C25 (as stated): if from some tick on the desired state no longer changes
\* and no spawn fails, then eventually the tools with an entry in
\* running_processes are those of the desired state, and it stays so.
C25_Converges == Settles => <>[]Converged

(***************************************************************************)
(* MCPAutoManager with tools that may exit on their own                    *)
(***************************************************************************)
\* the process behind an entry of running_processes exits; the Popen handle of
\* the entry stays where it is
ProcessExits ==
    /\ program = "mcp_auto_manager"
    /\ \E n \in DOMAIN running_processes :
         /\ running_processes[n].process = "alive"
         /\ running_processes' = [running_processes EXCEPT ![n].process = "exited"]
    /\ UNCHANGED <<program, nonAutoVars, pc, current_tools_signatures, orphans, threads,
                   changes, stops, stopping, waited, fetched, fetch_ok, fetchedOnce,
                   sameFetch>>

NextExit ==
    \/ MainThread
    \/ \E t \in DOMAIN threads : ThreadSpawn(t)
    \/ \E t \in DOMAIN threads : ThreadRecord(t)
    \/ ProcessExits

\* the main loop and the start threads are scheduled fairly; a process need not
\* exit
SpecExit ==
    /\ InitAuto
    /\ [][NextExit]_vars
    /\ WF_vars(MainThread)
    /\ WF_vars(\E t \in DOMAIN threads : ThreadSpawn(t))
    /\ WF_vars(\E t \in DOMAIN threads : ThreadRecord(t))

\* the table has an entry for tool n whose process has exited
ExitedEntry(n) == n \in DOMAIN running_processes /\ running_processes[n].process = "exited"

\* C26 (as stated): an entry of running_processes whose process has exited is
\* eventually removed from the table (or replaced by an entry of a live
\* process).
C26_ExitedEntryRemoved == \A n \in NameSet : ExitedEntry(n) ~> ~ExitedEntry(n)

\* C27 (as stated): when the new process of a tool has been spawned, no process
\* that was stopped for that tool, or whose handle was dropped, is still alive.
C27_OldExitedBeforeNew ==
    program = "mcp_auto_manager" =>
        \A t \in DOMAIN threads :
            t.stage = "spawned" => ~\E o \in DOMAIN orphans : o.name = t.name

(***************************************************************************)
(* start_tool (_check_tools_status.py): the command the status checker     *)
(* launches for a tool it restarts, or none.                               *)
(***************************************************************************)
start_tool(tool) ==
    IF tool.versions = <<>> \/ tool.versions[1].released.falsy THEN <<>>
    ELSE LET released == tool.versions[1].released
         IN  IF released.port = "" \/ released.args = <<>> THEN <<>>
             ELSE <<FullCmd(released.port, released.env, released.args)>>

\* C28 (as stated): for every tool of the list refresh_tools works on that
\* tool_args_converter translates into a command with a port, the port
\* safe_get_port gives the status checker is the port of that command, and the
\* command start_tool would launch is that command.
C28_SameVersionEverywhere ==
    (program = "app" /\ ~refresh_tools_cache.is_none) =>
        \A i \in 1..Len(refresh_tools_cache.value) :
            LET row      == refresh_tools_cache.value[i]
                launched == tool_args_converter(<<row>>)
            IN  (launched # <<>> /\ launched[1].full_cmd.sse_port # "") =>
                    /\ safe_get_port(row) = {_extract_port(launched[1].full_cmd)}
                    /\ start_tool(row) = <<launched[1].full_cmd>>

\* the ports the versions of the rows declare
DeclaredPorts(rows) ==
    {rows[e[1]].versions[e[2]].released.port : e \in Released_versions(rows)} \ {NoPort}

\* create_tool inserts a tool
Creates == program = "app" /\ Len(store') = Len(store) + 1

\* C29 (as stated): the port get_free_port returns for the version of a new
\* tool is declared by no tool the table holds at that time.
C29_ReturnedPortUndeclared ==
    [][Creates => LatestPort(Last(store')) \notin DeclaredPorts(store)]_vars

\* ... the same for the calls that find the used-ports cache still valid
ReturnedPortUndeclaredCached ==
    [][(Creates /\ ~UsedPortsExpired(_used_ports_cache, _last_used_ports_check, now))
          => LatestPort(Last(store')) \notin DeclaredPorts(store)]_vars

\* C30 (as stated): get_free_port returns None only if no port of the
\* configured range that no tool declares can be bound.
C30_NoneOnlyWhenNoneFree ==
    (program = "app" /\ free_port.path = "none") =>
        (PortRangeOf(_port_config) \ _used_ports_cache.value) \subseteq busy

====
